---- MODULE Spec2Model ----
(***************************************************************************)
(* Radiolla: the offline-first station synchronisation engine.             *)
(*                                                                         *)
(* Modelled from src/services/syncService.ts (pending-change queue, merge, *)
(* retry, remote store calls, sync orchestration, network listener, sync   *)
(* state observers), the callers in src/client/App.tsx (performSync, sign  *)
(* in and out) and in the stations context (syncStationChange,             *)
(* src/unnamed/part_009), and the station serializer                       *)
(* (src/unnamed/part_002, lines 199-279).                                  *)
(*                                                                         *)
(* Strings whose content the code inspects (URLs, JSON text) are sequences *)
(* of one-character strings, so that toLowerCase, trim, JSON.stringify and *)
(* JSON.parse are computed character by character.                         *)
(***************************************************************************)
EXTENDS Integers, Sequences, FiniteSets, TLC

VARIABLES
    \* -- mergeStations harness -------------------------------------------
    local,              \* argument `local` of mergeStations
    cloud,              \* argument `cloud` of mergeStations
    merged,             \* [done, val]: the value mergeStations returned
    \* -- serializer harness ----------------------------------------------
    stations,           \* argument of serialize (a Station[])
    json,               \* [set, text]: the text handed to deserialize
    result,             \* [done, val]: the value deserialize returned
    \* -- withRetry harness -----------------------------------------------
    retry,              \* the withRetry call: arguments, locals, what it did
    \* -- syncService.ts module state and its environment ------------------
    currentSyncState,   \* let currentSyncState: SyncState
    pendingChangesCache,\* let pendingChangesCache: a reference into heap, or NULL
    heap,               \* the PendingChange[] array objects, by reference
    storage,            \* AsyncStorage item 'Radiolla:pending-changes'
    remote,             \* Firestore: users/{userId}/stations/{stationId}
    tasks,              \* the asynchronous calls in flight, one call stack each
    returned,           \* the outermost call that has just returned, if any
    nextChangeId,       \* source of generateChangeId()
    now,                \* Date.now()
    isNetworkConnected, \* let isNetworkConnected: boolean
    currentUserId,      \* let currentUserId: string | null
    onNetworkRestoredCallback,  \* whether a callback is registered (not null)
    syncStateListeners, \* const syncStateListeners: the callbacks, as added
    observers,          \* each callback: how it was called, and its history
    \* -- history ------------------------------------------------------------
    meanwhile,          \* what pushChange calls did since the last sync began
    transitions,        \* the values currentSyncState was changed to, in order
    delivered           \* per station, the newest live edit pushed directly

mergeVars == <<local, cloud, merged>>
serVars == <<stations, json, result>>
listenerVars == <<isNetworkConnected, currentUserId, onNetworkRestoredCallback>>
observerVars == <<syncStateListeners, observers, transitions>>
sysVars == <<currentSyncState, pendingChangesCache, heap, storage, remote, tasks,
             returned, nextChangeId, now, listenerVars, meanwhile, observerVars,
             delivered>>

vars == <<local, cloud, merged, stations, json, result, retry,
          currentSyncState, pendingChangesCache, heap, storage, remote, tasks,
          returned, nextChangeId, now,
          isNetworkConnected, currentUserId, onNetworkRestoredCallback, meanwhile,
          syncStateListeners, observers, transitions, delivered>>
pureVars == <<local, cloud, merged, stations, json, result, retry>>
\* What the queue, push, download, upload and sync functions never write.
restVars == <<listenerVars, meanwhile, pureVars, observerVars, delivered>>

----------------------------------------------------------------------------
(* Strings                                                                 *)

\* String.prototype.toLowerCase on one character of the modelled alphabet.
LowerChar(c) ==
    CASE c = "X" -> "x"
      [] c = "Y" -> "y"
      [] OTHER -> c

\* String.prototype.toLowerCase
toLowerCase(s) == [i \in 1..Len(s) |-> LowerChar(s[i])]

\* White space as String.prototype.trim sees it (the characters modelled).
IsWhiteSpace(c) == c \in {" ", "\t", "\n"}

RECURSIVE trimStart(_)
trimStart(s) ==
    IF s # <<>> /\ IsWhiteSpace(Head(s)) THEN trimStart(Tail(s)) ELSE s

RECURSIVE trimEnd(_)
trimEnd(s) ==
    IF s # <<>> /\ IsWhiteSpace(s[Len(s)])
    THEN trimEnd(SubSeq(s, 1, Len(s) - 1))
    ELSE s

\* String.prototype.trim
trim(s) == trimEnd(trimStart(s))

\* station.url.toLowerCase().trim()
NormalizedUrl(station) == trim(toLowerCase(station.url))

----------------------------------------------------------------------------
(* mergeStations: a JavaScript Map keyed by normalized URL.  A Map keeps   *)
(* its keys in first-insertion order; set() on a present key replaces the  *)
(* value and keeps the key's position.                                     *)

\* Map.prototype.has
MapHas(m, k) == \E i \in 1..Len(m) : m[i].key = k

\* Map.prototype.set
MapSet(m, k, v) ==
    IF MapHas(m, k)
    THEN [i \in 1..Len(m) |-> IF m[i].key = k THEN [key |-> k, val |-> v] ELSE m[i]]
    ELSE Append(m, [key |-> k, val |-> v])

\* Array.from(map.values())
MapValues(m) == [i \in 1..Len(m) |-> m[i].val]

\* for (const station of local) stationsByUrl.set(normalizedUrl, station)
RECURSIVE AddLocalStations(_, _)
AddLocalStations(m, list) ==
    IF list = <<>> THEN m
    ELSE AddLocalStations(MapSet(m, NormalizedUrl(Head(list)), Head(list)), Tail(list))

\* Variant: the cloud loop without its has() test appends a second entry.
RECURSIVE AddCloudStations_noHasTest(_, _)
AddCloudStations_noHasTest(m, list) ==
    IF list = <<>> THEN m
    ELSE AddCloudStations_noHasTest(
            Append(m, [key |-> NormalizedUrl(Head(list)), val |-> Head(list)]),
            Tail(list))

\* Variant: the has() test inverted, so cloud-only URLs are never inserted.
RECURSIVE AddCloudStations_invertedTest(_, _)
AddCloudStations_invertedTest(m, list) ==
    IF list = <<>> THEN m
    ELSE AddCloudStations_invertedTest(
            IF MapHas(m, NormalizedUrl(Head(list)))
            THEN MapSet(m, NormalizedUrl(Head(list)), Head(list))
            ELSE m,
            Tail(list))

\* Variant: the cloud loop sets unconditionally, so the cloud entry wins.
RECURSIVE AddCloudStations_cloudWins(_, _)
AddCloudStations_cloudWins(m, list) ==
    IF list = <<>> THEN m
    ELSE AddCloudStations_cloudWins(
            MapSet(m, NormalizedUrl(Head(list)), Head(list)), Tail(list))

\* for (const station of cloud) if (!has(normalizedUrl)) set(normalizedUrl, station)
RECURSIVE AddCloudStations(_, _)
AddCloudStations(m, list) ==
    IF list = <<>> THEN m
    ELSE AddCloudStations(
            IF MapHas(m, NormalizedUrl(Head(list)))
            THEN m
            ELSE MapSet(m, NormalizedUrl(Head(list)), Head(list)),
            Tail(list))

mergeStations(l, c) == MapValues(AddCloudStations(AddLocalStations(<<>>, l), c))

----------------------------------------------------------------------------
(* JSON text.  A text is a sequence of characters; JSON.stringify writes   *)
(* one and JSON.parse reads one, character by character.  JavaScript       *)
(* values are tagged records:                                              *)
(*   [t |-> "string", s], [t |-> "number", n], [t |-> "boolean", b],       *)
(*   [t |-> "null"], [t |-> "undefined"], [t |-> "array", items],          *)
(*   [t |-> "object", fields]  with fields a sequence of [key, val] in     *)
(*   property order.                                                       *)

JSString(chars) == [t |-> "string", s |-> chars]
JSNumber(digits) == [t |-> "number", n |-> digits]
JSBoolean(b) == [t |-> "boolean", b |-> b]
JSNull == [t |-> "null"]
JSUndefined == [t |-> "undefined"]
JSArray(items) == [t |-> "array", items |-> items]
JSObject(fields) == [t |-> "object", fields |-> fields]

\* The object literal {id, name, url} of a Station.
StationObject(st) ==
    JSObject(<< [key |-> <<"i", "d">>, val |-> JSString(st.id)],
                [key |-> <<"n", "a", "m", "e">>, val |-> JSString(st.name)],
                [key |-> <<"u", "r", "l">>, val |-> JSString(st.url)] >>)

RECURSIVE Concat(_)
Concat(parts) == IF parts = <<>> THEN <<>> ELSE Head(parts) \o Concat(Tail(parts))

\* JSON.stringify's escape of one character of a string.
EscapeChar(c) ==
    CASE c = "\"" -> <<"\\", "\"">>
      [] c = "\\" -> <<"\\", "\\">>
      [] c = "\n" -> <<"\\", "n">>
      [] c = "\t" -> <<"\\", "t">>
      [] OTHER -> <<c>>

\* JSON.stringify of a string: quoted and escaped.
Quote(chars) ==
    <<"\"">> \o Concat([i \in 1..Len(chars) |-> EscapeChar(chars[i])]) \o <<"\"">>

RECURSIVE Join(_, _)
Join(parts, sep) ==
    IF parts = <<>> THEN <<>>
    ELSE IF Len(parts) = 1 THEN Head(parts)
    ELSE Head(parts) \o sep \o Join(Tail(parts), sep)

\* JSON.stringify of a value.
RECURSIVE JSONstringify(_)
JSONstringify(v) ==
    CASE v.t = "string" -> Quote(v.s)
      [] v.t = "number" -> v.n
      [] v.t = "boolean" -> v.b
      [] v.t = "null" -> <<"n", "u", "l", "l">>
      [] v.t = "array" ->
            <<"[">> \o Join([i \in 1..Len(v.items) |-> JSONstringify(v.items[i])], <<",">>)
                    \o <<"]">>
      [] v.t = "object" ->
            <<"{">> \o Join([i \in 1..Len(v.fields) |->
                                Quote(v.fields[i].key) \o <<":">>
                                    \o JSONstringify(v.fields[i].val)], <<",">>)
                    \o <<"}">>

\* -- JSON.parse ----------------------------------------------------------
\* A parse step returns [ok |-> FALSE] (a SyntaxError) or
\* [ok |-> TRUE, v |-> value, i |-> index of the next unread character].

ParseFail == [ok |-> FALSE]
ParseOk(v, i) == [ok |-> TRUE, v |-> v, i |-> i]

IsJsonWs(c) == c \in {" ", "\t", "\n"}
IsDigit(c) == c \in {"0", "1", "2", "3", "4", "5", "6", "7", "8", "9"}

RECURSIVE SkipWs(_, _)
SkipWs(t, i) == IF i <= Len(t) /\ IsJsonWs(t[i]) THEN SkipWs(t, i + 1) ELSE i

\* Does text t hold the word w at index i?
HasWord(t, i, w) == i + Len(w) - 1 <= Len(t) /\ SubSeq(t, i, i + Len(w) - 1) = w

\* The characters of a string literal, from index i (after the opening quote).
RECURSIVE ParseStringChars(_, _, _)
ParseStringChars(t, i, acc) ==
    IF i > Len(t) THEN ParseFail
    ELSE IF t[i] = "\"" THEN ParseOk(JSString(acc), i + 1)
    ELSE IF t[i] = "\\" THEN
        IF i + 1 > Len(t) THEN ParseFail
        ELSE IF t[i + 1] \in {"\"", "\\", "/"}
            THEN ParseStringChars(t, i + 2, Append(acc, t[i + 1]))
        ELSE IF t[i + 1] = "n" THEN ParseStringChars(t, i + 2, Append(acc, "\n"))
        ELSE IF t[i + 1] = "t" THEN ParseStringChars(t, i + 2, Append(acc, "\t"))
        ELSE ParseFail
    ELSE IF t[i] \in {"\n", "\t"} THEN ParseFail
    ELSE ParseStringChars(t, i + 1, Append(acc, t[i]))

RECURSIVE ParseDigits(_, _, _)
ParseDigits(t, i, acc) ==
    IF i <= Len(t) /\ IsDigit(t[i])
    THEN ParseDigits(t, i + 1, Append(acc, t[i]))
    ELSE ParseOk(JSNumber(acc), i)

\* -?(0|[1-9][0-9]*)
ParseNumber(t, i) ==
    LET neg == i <= Len(t) /\ t[i] = "-"
        j == IF neg THEN i + 1 ELSE i
        sign == IF neg THEN <<"-">> ELSE <<>>
    IN  IF j > Len(t) \/ ~IsDigit(t[j]) THEN ParseFail
        ELSE IF t[j] = "0" THEN ParseOk(JSNumber(sign \o <<"0">>), j + 1)
        ELSE ParseDigits(t, j, sign)

RECURSIVE ParseValue(_, _)
RECURSIVE ParseItems(_, _, _)
RECURSIVE ParseFields(_, _, _)

\* The items of an array after "[" and a first value: ("," value)* "]".
ParseItems(t, i, acc) ==
    LET j == SkipWs(t, i)
    IN  IF j > Len(t) THEN ParseFail
        ELSE IF t[j] = "]" THEN ParseOk(JSArray(acc), j + 1)
        ELSE IF t[j] = "," THEN
            LET r == ParseValue(t, j + 1)
            IN  IF r.ok THEN ParseItems(t, r.i, Append(acc, r.v)) ELSE ParseFail
        ELSE ParseFail

\* One `"key" : value` member at index i (white space skipped by the caller).
ParseMember(t, i) ==
    IF i > Len(t) \/ t[i] # "\"" THEN ParseFail
    ELSE LET k == ParseStringChars(t, i + 1, <<>>)
         IN  IF ~k.ok THEN ParseFail
             ELSE LET c == SkipWs(t, k.i)
                  IN  IF c > Len(t) \/ t[c] # ":" THEN ParseFail
                      ELSE LET r == ParseValue(t, c + 1)
                           IN  IF r.ok
                               THEN ParseOk([key |-> k.v.s, val |-> r.v], r.i)
                               ELSE ParseFail

\* The members of an object after "{" and a first member: ("," member)* "}".
ParseFields(t, i, acc) ==
    LET j == SkipWs(t, i)
    IN  IF j > Len(t) THEN ParseFail
        ELSE IF t[j] = "}" THEN ParseOk(JSObject(acc), j + 1)
        ELSE IF t[j] = "," THEN
            LET m == ParseMember(t, SkipWs(t, j + 1))
            IN  IF m.ok THEN ParseFields(t, m.i, Append(acc, m.v)) ELSE ParseFail
        ELSE ParseFail

ParseValue(t, i0) ==
    LET i == SkipWs(t, i0)
    IN  IF i > Len(t) THEN ParseFail
        ELSE IF t[i] = "\"" THEN ParseStringChars(t, i + 1, <<>>)
        ELSE IF t[i] = "-" \/ IsDigit(t[i]) THEN ParseNumber(t, i)
        ELSE IF HasWord(t, i, <<"n", "u", "l", "l">>) THEN ParseOk(JSNull, i + 4)
        ELSE IF HasWord(t, i, <<"t", "r", "u", "e">>)
            THEN ParseOk(JSBoolean(<<"t", "r", "u", "e">>), i + 4)
        ELSE IF HasWord(t, i, <<"f", "a", "l", "s", "e">>)
            THEN ParseOk(JSBoolean(<<"f", "a", "l", "s", "e">>), i + 5)
        ELSE IF t[i] = "[" THEN
            LET j == SkipWs(t, i + 1)
            IN  IF j <= Len(t) /\ t[j] = "]" THEN ParseOk(JSArray(<<>>), j + 1)
                ELSE LET r == ParseValue(t, j)
                     IN  IF r.ok THEN ParseItems(t, r.i, <<r.v>>) ELSE ParseFail
        ELSE IF t[i] = "{" THEN
            LET j == SkipWs(t, i + 1)
            IN  IF j <= Len(t) /\ t[j] = "}" THEN ParseOk(JSObject(<<>>), j + 1)
                ELSE LET m == ParseMember(t, j)
                     IN  IF m.ok THEN ParseFields(t, m.i, <<m.v>>) ELSE ParseFail
        ELSE ParseFail

\* JSON.parse: [ok |-> FALSE] stands for the SyntaxError it throws.
JSONparse(t) ==
    LET r == ParseValue(t, 1)
    IN  IF r.ok /\ SkipWs(t, r.i) > Len(t) THEN [ok |-> TRUE, v |-> r.v] ELSE ParseFail

----------------------------------------------------------------------------
(* Station serializer (src/unnamed/part_002, lines 199-279)                *)

KeyId == <<"i", "d">>
KeyName == <<"n", "a", "m", "e">>
KeyUrl == <<"u", "r", "l">>

\* The outcome of an expression that throws.
Thrown == [t |-> "throw"]

\* typeof v
TypeOf(v) ==
    CASE v.t \in {"null", "array", "object"} -> "object"
      [] OTHER -> v.t

\* Array.isArray(v)
IsArray(v) == v.t = "array"

\* The index of the last field of object v with key k (0: none): a repeated
\* key in JSON text leaves the last value.
LastField(v, k) ==
    LET hits == {i \in 1..Len(v.fields) : v.fields[i].key = k}
    IN  IF hits = {} THEN 0 ELSE CHOOSE i \in hits : \A j \in hits : j <= i

\* v.k (property read): a TypeError on null and undefined, undefined when
\* the property is absent.
JSGet(v, k) ==
    IF v.t \in {"null", "undefined"} THEN Thrown
    ELSE IF v.t = "object" /\ LastField(v, k) # 0 THEN v.fields[LastField(v, k)].val
    ELSE JSUndefined

\* export function serialize(stations): JSON.stringify(stations)
serialize(list) ==
    JSONstringify(JSArray([i \in 1..Len(list) |-> StationObject(list[i])]))

\* An error result { error: message }; the message is kept as the pieces of
\* its template literal.
ErrorResult(pieces) == [t |-> "object", error |-> pieces]

\* Variant: the map callback reads name and url from the wrong properties.
ToStation_swapped(s) ==
    [id |-> JSGet(s, KeyId).s, name |-> JSGet(s, KeyUrl).s, url |-> JSGet(s, KeyName).s]

\* (s) => ({ id: s.id, name: s.name, url: s.url })
ToStation(s) ==
    [id |-> JSGet(s, KeyId).s, name |-> JSGet(s, KeyName).s, url |-> JSGet(s, KeyUrl).s]

\* The validation loop of deserialize from index i (1-based here, i - 1 in
\* the message): the first error result, else the mapped station list.
RECURSIVE ValidateFrom(_, _)
ValidateFrom(parsed, i) ==
    IF i > Len(parsed.items)
    THEN [t |-> "array",
          items |-> [k \in 1..Len(parsed.items) |-> ToStation(parsed.items[k])]]
    ELSE LET station == parsed.items[i]
             idx == ToString(i - 1)
         IN  IF TypeOf(station) # "object" \/ station.t = "null"
             THEN ErrorResult(<<"Invalid station at index ", idx, ": expected an object">>)
             ELSE IF JSGet(station, KeyId).t = "throw" THEN Thrown
             ELSE IF TypeOf(JSGet(station, KeyId)) # "string"
             THEN ErrorResult(<<"Invalid station at index ", idx,
                                ": missing or invalid 'id' field">>)
             ELSE IF TypeOf(JSGet(station, KeyName)) # "string"
             THEN ErrorResult(<<"Invalid station at index ", idx,
                                ": missing or invalid 'name' field">>)
             ELSE IF TypeOf(JSGet(station, KeyUrl)) # "string"
             THEN ErrorResult(<<"Invalid station at index ", idx,
                                ": missing or invalid 'url' field">>)
             ELSE ValidateFrom(parsed, i + 1)

\* The try block of deserialize: its return value, or Thrown.
deserializeTry(text) ==
    LET p == JSONparse(text)
    IN  IF ~p.ok THEN Thrown
        ELSE IF ~IsArray(p.v)
        THEN ErrorResult(<<"Invalid format: expected an array of stations">>)
        ELSE ValidateFrom(p.v, 1)

\* Variant: deserialize without its catch clause.
deserialize_noCatch(text) == deserializeTry(text)

\* export function deserialize(json): the try block, and the catch clause
\* that turns anything thrown into an error result.
deserialize(text) ==
    LET r == deserializeTry(text)
    IN  IF r.t = "throw" THEN ErrorResult(<<"Invalid JSON: failed to parse">>) ELSE r

\* export function isDeserializeError(result)
isDeserializeError(r) ==
    TypeOf(r) = "object" /\ "error" \in DOMAIN r /\ ~IsArray(r)

\* error.length > 0 of a message kept as pieces.
MessageNonEmpty(pieces) == \E i \in 1..Len(pieces) : pieces[i] # ""

----------------------------------------------------------------------------
(* syncService.ts: data                                                    *)

\* Bound: asynchronous calls in flight at once.
MaxTasks == 2
\* Bound: PendingChange objects created in one run.
MaxChanges == 3

\* syncConfig.maxRetries
MaxRetries == 3

ChangeTypes == {"add", "update", "delete"}

Users == {"u1"}
\* The accounts that sign in on the device one after the other.
DeviceUsers == {"u1", "u2"}
\* currentUserId = null
NoUser == ""
StationIds == {"s1", "s2"}

\* Firestore lists a collection in document-id order.
StationIdOrder == <<"s1", "s2">>

NoStation == [id |-> "", name |-> "", url |-> <<>>]
NoChange == [id |-> 0, type |-> "none", station |-> NoStation, timestamp |-> 0]

\* pendingChangesCache = null
NULL == 0

TaskIds == 1..MaxTasks
\* Array objects alive at once: the cache, one held by each call, and two
\* being created.
ArrIds == 1..(MaxTasks + 3)

\* What an awaited call hands back: kind "ok" (resolved) or "net" / "other"
\* (rejected with a network-classified / any other error), and its value:
\* flag (a boolean result, SyncResult.success), list (a Station[] result,
\* SyncResult.mergedStations), error (the class of SyncResult.error).
NoRet == [kind |-> "none", flag |-> FALSE, list |-> <<>>, error |-> "none"]
RetOk == [NoRet EXCEPT !.kind = "ok"]
RetThrow(kind) == [NoRet EXCEPT !.kind = kind]

\* Variant: no error is classified as a network error.
isNetworkError_noError(kind) == FALSE

\* Variant: every error is classified as a network error.
isNetworkError_everyError(kind) == kind \in {"net", "other"}

\* isNetworkError(error), on the class of the error
isNetworkError(kind) == kind = "net"

NoStored == [present |-> FALSE, val |-> <<>>]

\* A stack frame: the function, where it is suspended, and its locals.
Frame(fn, pc) ==
    [fn |-> fn, pc |-> pc,
     change |-> NoChange,       \* parameter change
     changeId |-> 0,            \* parameter changeId
     userId |-> "",             \* parameter userId
     arr |-> NULL,              \* const changes / pendingChanges (a reference)
     stored |-> NoStored,       \* what AsyncStorage.getItem resolves with
     sorted |-> <<>>,           \* sortedChanges, from the one being processed
     list |-> <<>>,             \* parameter stations / localStations
     merged |-> <<>>,           \* mergedStations
     existing |-> NoChange,     \* addPendingChange: existing (NoChange: none)
     existingDocs |-> {}]       \* uploadStations: ids of existingDocs.docs

NoInput == [change |-> NoChange, changeId |-> 0, list |-> <<>>, userId |-> ""]

NotDownloaded == [done |-> FALSE, list |-> <<>>]

\* A call slot: the stack of the call in flight (empty: none) and the value
\* its last awaited call settled with.  Of the outermost call it records the
\* name, the arguments and the outcome, and what the call did on the way:
\* the cloudStations that downloadStations returned to it, the lists it
\* handed to uploadStations, whether a Firestore request of its failed, and
\* the changes that processPendingChanges handed to pushStationChange.
IdleTask ==
    [stack |-> <<>>, ret |-> NoRet, op |-> "none", input |-> NoInput,
     outcome |-> NoRet, cloud |-> NotDownloaded, uploads |-> <<>>,
     failed |-> FALSE, log |-> <<>>, attempts |-> <<>>]

\* The call notes what it does next (handleNetworkChange: the states it
\* sets, the calls it makes and the ones that return to it).
Logged(k, entries) == [k EXCEPT !.log = @ \o entries]

Top(k) == k.stack[Len(k.stack)]
SetTop(k, f) == [k EXCEPT !.stack[Len(k.stack)] = f, !.ret = NoRet]
\* The caller stays suspended in frame f while the called frame g runs.
Call(k, f, g) ==
    [k EXCEPT !.stack = SubSeq(k.stack, 1, Len(k.stack) - 1) \o <<f, g>>,
              !.ret = NoRet]
\* The running function settles its promise with r; the outermost call's
\* result is the call's outcome.
Return(k, r) ==
    IF Len(k.stack) = 1
    THEN [k EXCEPT !.stack = <<>>, !.ret = NoRet, !.outcome = r]
    ELSE [k EXCEPT !.stack = SubSeq(k.stack, 1, Len(k.stack) - 1), !.ret = r]

Running(t) == tasks[t].stack # <<>>
\* Call t is suspended in fn at pc, waiting for an event of its own.
At(t, fn, pc) ==
    /\ Running(t)
    /\ Top(tasks[t]).fn = fn
    /\ Top(tasks[t]).pc = pc
    /\ tasks[t].ret.kind = "none"
\* The call that fn awaited at pc has settled; fn resumes.
Resumed(t, fn, pc) ==
    /\ Running(t)
    /\ Top(tasks[t]).fn = fn
    /\ Top(tasks[t]).pc = pc
    /\ tasks[t].ret.kind # "none"

\* New calls take the lowest free slot.
FreeSlot(t) ==
    /\ ~Running(t)
    /\ \A u \in TaskIds : u < t => Running(u)

\* -- array objects ---------------------------------------------------------

\* The array references alive with cache c and tasks ts.
Live(c, ts) ==
    ({c} \cup UNION {{ts[t].stack[i].arr : i \in 1..Len(ts[t].stack)} : t \in TaskIds})
        \ {NULL}

\* The k-th unused reference (new arrays take the lowest ones).
RECURSIVE NthFree(_, _)
NthFree(used, k) ==
    LET a == CHOOSE x \in ArrIds \ used : \A y \in ArrIds \ used : x <= y
    IN  IF k = 1 THEN a ELSE NthFree(used \cup {a}, k - 1)

NewArr(k) == NthFree(Live(pendingChangesCache, tasks), k)

\* The references held by cache c and the frames of tasks ts from slot t
\* on, in that order.
RECURSIVE StackRefs(_, _)
StackRefs(ts, t) ==
    IF t > MaxTasks THEN <<>>
    ELSE [i \in 1..Len(ts[t].stack) |-> ts[t].stack[i].arr] \o StackRefs(ts, t + 1)

RECURSIVE FirstOccurrences(_, _)
FirstOccurrences(refs, seen) ==
    IF refs = <<>> THEN <<>>
    ELSE IF Head(refs) \in seen \cup {NULL} THEN FirstOccurrences(Tail(refs), seen)
    ELSE <<Head(refs)>> \o FirstOccurrences(Tail(refs), seen \cup {Head(refs)})

\* Array objects have no address the program can see: the live ones are
\* numbered in the order in which the cache and the frames refer to them,
\* and the ones nothing refers to any more are dropped.
RenumberedIn(order, h, c, ts) ==
    LET New(a) == IF a = NULL THEN NULL
                  ELSE CHOOSE i \in 1..Len(order) : order[i] = a
    IN  [heap |-> [a \in ArrIds |-> IF a <= Len(order) THEN h[order[a]] ELSE <<>>],
         cache |-> New(c),
         tasks |-> [t \in TaskIds |->
                      [ts[t] EXCEPT !.stack =
                          [i \in 1..Len(ts[t].stack) |->
                              [ts[t].stack[i] EXCEPT !.arr = New(ts[t].stack[i].arr)]]]]]
Renumbered(h, c, ts) ==
    CHOOSE r \in {RenumberedIn(order, h, c, ts) :
                    order \in {FirstOccurrences(<<c>> \o StackRefs(ts, 1), {})}} : TRUE

\* Slot t continues as k, with cache reference c and array objects h.  When
\* k has returned, the slot is free again and the call is shown in
\* `returned` until the next step.
Commit(t, k, c, h) ==
    \E call \in {k} :
      \E r \in {Renumbered(h, c, [tasks EXCEPT ![t] =
                                    IF call.stack = <<>> THEN IdleTask ELSE call])} :
        /\ tasks' = r.tasks
        /\ pendingChangesCache' = r.cache
        /\ heap' = r.heap
        /\ returned' = IF call.stack = <<>> THEN call ELSE IdleTask

\* The same with the cache and the array objects as they are.
Continue(t, k) == Commit(t, k, pendingChangesCache, heap)

\* -- sync state ------------------------------------------------------------

\* setSyncState(state): the new value of currentSyncState.
setSyncState(state) == state

\* type SyncState
SyncStates == {"idle", "syncing", "synced", "error", "offline"}

\* Bound: the functions ever passed to onSyncStateChanged.
MaxObservers == 2
\* Bound: the changes of currentSyncState in one run with observers.
MaxTransitions == 3

\* The functions passed to onSyncStateChanged; every registration passes a
\* new one (the closure that SyncStatusIndicator's effect creates).
Callbacks == 1..MaxObservers

\* A callback that was never passed to onSyncStateChanged.  calls: the
\* states it was called with and whether it threw; since: how many changes of
\* state had happened when it was registered; handle: onSyncStateChanged
\* returned its unsubscribe function; unsubscribed: the calls of that
\* function.
NotCalled == [calls |-> <<>>, since |-> 0, handle |-> FALSE, unsubscribed |-> 0]

\* callback(state), which throws or returns.
Invoked(obs, cb, state, throws) ==
    [obs EXCEPT ![cb].calls = Append(@, [state |-> state, threw |-> throws])]

\* Variant: an error thrown by a listener is not caught.
ListenerErrorCaught_rethrown == FALSE

\* try { callback(currentSyncState) } catch (error) { console.error(...) }
ListenerErrorCaught == TRUE

\* notifySyncStateListeners(): syncStateListeners.forEach over the listeners
\* in insertion order; the callbacks in throwers throw.  The observers
\* afterwards, and whether an error left the function.
RECURSIVE notifySyncStateListeners(_, _, _, _)
notifySyncStateListeners(listeners, obs, state, throwers) ==
    IF listeners = <<>> THEN [observers |-> obs, thrown |-> FALSE]
    ELSE LET cb == Head(listeners)
             called == Invoked(obs, cb, state, cb \in throwers)
         IN  IF cb \in throwers /\ ~ListenerErrorCaught
             THEN [observers |-> called, thrown |-> TRUE]
             ELSE notifySyncStateListeners(Tail(listeners), called, state, throwers)

\* Variant: setSyncState notifies whatever the new state is.
StateDiffers_always(current, state) == TRUE

\* if (currentSyncState !== state)
StateDiffers(current, state) == current # state

\* Variant: the unsubscribe function leaves the listener registered.
Deleted_keeps(listeners, cb) == listeners

\* syncStateListeners.delete(callback)
Deleted(listeners, cb) ==
    LET Other(c) == c # cb IN SelectSeq(listeners, Other)

\* -- pending-change queue ----------------------------------------------------

\* changes.findIndex(c => c.station.id === change.station.id), 0 for -1
FindIndex(changes, stationId) ==
    LET hits == {i \in 1..Len(changes) : changes[i].station.id = stationId}
    IN  IF hits = {} THEN 0 ELSE CHOOSE i \in hits : \A j \in hits : i <= j

\* changes.splice(index, 1)
Splice(changes, index) ==
    SubSeq(changes, 1, index - 1) \o SubSeq(changes, index + 1, Len(changes))

\* Variant: an existing add followed by a delete is replaced by the delete.
Coalesce_keepsDelete(changes, change) ==
    LET idx == FindIndex(changes, change.station.id)
    IN  IF idx = 0 THEN Append(changes, change)
        ELSE IF changes[idx].type = "add" /\ change.type = "update"
             THEN [changes EXCEPT ![idx] = [change EXCEPT !.type = "add"]]
        ELSE [changes EXCEPT ![idx] = change]

\* Variant: an existing add followed by an update becomes an update.
Coalesce_becomesUpdate(changes, change) ==
    LET idx == FindIndex(changes, change.station.id)
    IN  IF idx = 0 THEN Append(changes, change)
        ELSE IF changes[idx].type = "add" /\ change.type = "delete"
             THEN Splice(changes, idx)
        ELSE [changes EXCEPT ![idx] = change]

\* Variant: the change is always pushed onto the array.
Coalesce_alwaysPush(changes, change) == Append(changes, change)

\* addPendingChange, from findIndex to the array handed to
\* savePendingChanges: what `changes` holds afterwards.
Coalesce(changes, change) ==
    LET idx == FindIndex(changes, change.station.id)
    IN  IF idx = 0 THEN Append(changes, change)
        ELSE IF changes[idx].type = "add" /\ change.type = "delete"
             THEN Splice(changes, idx)
        ELSE IF changes[idx].type = "add" /\ change.type = "update"
             THEN [changes EXCEPT ![idx] = [change EXCEPT !.type = "add"]]
        ELSE [changes EXCEPT ![idx] = change]

\* changes.filter(c => c.id !== changeId)
FilterOut(changes, changeId) ==
    LET Keep(c) == c.id # changeId IN SelectSeq(changes, Keep)

\* [...pendingChanges].sort((a, b) => a.timestamp - b.timestamp): the sort
\* is stable, so equal timestamps keep their queue order.
RECURSIVE InsertByTimestamp(_, _)
InsertByTimestamp(sortedSoFar, c) ==
    IF sortedSoFar = <<>> THEN <<c>>
    ELSE IF sortedSoFar[Len(sortedSoFar)].timestamp <= c.timestamp
         THEN Append(sortedSoFar, c)
    ELSE Append(InsertByTimestamp(SubSeq(sortedSoFar, 1, Len(sortedSoFar) - 1), c),
                sortedSoFar[Len(sortedSoFar)])

RECURSIVE SortByTimestamp(_)
\* Variant: the changes are processed in queue order.
SortByTimestamp_queueOrder(changes) == changes

SortByTimestamp(changes) ==
    IF changes = <<>> THEN <<>>
    ELSE InsertByTimestamp(SortByTimestamp(SubSeq(changes, 1, Len(changes) - 1)),
                           changes[Len(changes)])

\* loadPendingChanges up to its first await: the frame of the function that
\* called it.  With a cache it resolves to the cached array; without one it
\* has asked AsyncStorage, which serves requests in the order they were
\* made, for the item as it is now.
LoadEntry(f) ==
    IF pendingChangesCache # NULL
    THEN [f EXCEPT !.pc = "loaded", !.arr = pendingChangesCache]
    ELSE [f EXCEPT !.pc = "getItem", !.stored = storage]

\* The frames of a call as they stand at its first await.
AddEntry(change) ==
    LoadEntry([Frame("addPendingChange", "") EXCEPT !.change = change])
RemoveEntry(changeId) ==
    LoadEntry([Frame("removePendingChange", "") EXCEPT !.changeId = changeId])
ProcessEntry(userId) ==
    LoadEntry([Frame("processPendingChanges", "") EXCEPT !.userId = userId])
\* withRetry is calling operation().
PushEntry(userId, change) ==
    [Frame("pushStationChange", "attempt") EXCEPT !.userId = userId, !.change = change]
DownloadEntry(userId) ==
    [Frame("downloadStations", "attempt") EXCEPT !.userId = userId]
UploadEntry(userId, list) ==
    [Frame("uploadStations", "get") EXCEPT !.userId = userId, !.list = list]

\* -- remote store ------------------------------------------------------------

\* snapshot.docs mapped through fromCloudStation, in document-id order.
DownloadedStations(userId) ==
    LET docs == [i \in 1..Len(StationIdOrder) |-> remote[userId][StationIdOrder[i]]]
        Exists(d) == d # NoStation
    IN  SelectSeq(docs, Exists)

\* The ids of existingDocs.docs
ExistingDocs(userId) == {sid \in StationIds : remote[userId][sid] # NoStation}

\* batch.set(collection.doc(station.id), toCloudStation(station)) for each
\* station, in order (createdAt / updatedAt are never read back).
RECURSIVE SetDocs(_, _)
SetDocs(docs, list) ==
    IF list = <<>> THEN docs
    ELSE SetDocs([docs EXCEPT ![Head(list).id] = Head(list)], Tail(list))

\* batch.commit(): the deletes of the documents read, then the sets.
CommitBatch(docs, existing, list) ==
    SetDocs([sid \in StationIds |-> IF sid \in existing THEN NoStation ELSE docs[sid]],
            list)

\* pushStationChange's operation on the user's collection.
ApplyChange(docs, change) ==
    CASE change.type = "add" ->
            [docs EXCEPT ![change.station.id] = change.station]
      [] change.type = "update" ->
            [docs EXCEPT ![change.station.id] =
                [@ EXCEPT !.name = change.station.name, !.url = change.station.url]]
      [] change.type = "delete" ->
            [docs EXCEPT ![change.station.id] = NoStation]

\* docRef.update() rejects (not-found) when the document does not exist.
CanApply(docs, change) ==
    change.type = "update" => docs[change.station.id] # NoStation

\* withRetry(operation).  An attempt that rejects writes nothing, and neither
\* does the sleep after it, so the attempts before the one that settles the
\* call are part of the step that settles it: `failures` attempts rejected
\* and the next one resolved (at most maxRetries before it), or every
\* attempt rejected and the last error, of class kind, thrown.
Failures == 0..MaxRetries
\* Of a syncStations call it is noted that a Firestore request failed.
NoteFailures(k, failures) ==
    IF k.op = "syncStations" /\ failures > 0 THEN [k EXCEPT !.failed = TRUE] ELSE k
WithRetryResolved(k, failures, value) == Return(NoteFailures(k, failures), value)
WithRetryRejected(k, kind) == Return(NoteFailures(k, MaxRetries + 1), RetThrow(kind))

ErrorKinds == {"net", "other"}

\* -- withRetry, attempt by attempt -----------------------------------------

\* syncConfig.baseRetryDelay
BaseRetryDelay == 1000

\* Math.pow(2, n)
RECURSIVE Pow2(_)
Pow2(n) == IF n = 0 THEN 1 ELSE 2 * Pow2(n - 1)

\* Variant: the loop stops one attempt earlier.
LoopContinues_exclusive(attempt, maxRetries) == attempt < maxRetries

\* for (...; attempt <= maxRetries; ...)
LoopContinues(attempt, maxRetries) == attempt <= maxRetries

\* if (attempt < maxRetries)
RetriesLeft(attempt, maxRetries) == attempt < maxRetries

\* Variant: the delay grows linearly.
Delay_linear(baseDelay, attempt) == baseDelay * (attempt + 1)

\* const delay = baseDelay * Math.pow(2, attempt)
Delay(baseDelay, attempt) == baseDelay * Pow2(attempt)

\* let lastError: Error | null = null
NoError == "null"

\* No withRetry call is being followed.
RetryIdle ==
    [pc |-> "idle", maxRetries |-> 0, baseDelay |-> 0, attempt |-> 0,
     lastError |-> NoError, calls |-> <<>>, sleeps |-> <<>>, value |-> "none"]

\* The loop test of withRetry with the locals of call r: operation() is
\* invoked and awaited, or the loop is left and lastError is thrown.
RetryLoop(r) ==
    IF LoopContinues(r.attempt, r.maxRetries)
    THEN [r EXCEPT !.pc = "operation"]
    ELSE [r EXCEPT !.pc = "thrown", !.value = r.lastError]

----------------------------------------------------------------------------
(* syncService.ts: the steps of the asynchronous functions.  Each action   *)
(* is one run of JavaScript from a resumption to the next await.           *)

\* A syncStations call is in flight (the app runs one full sync at a time).
SyncInFlight == \E t \in TaskIds : tasks[t].op = "syncStations"

\* History: what a pushChange call did with its change just now, noted when
\* a syncStations call is in flight.
\* The timestamp of the newest change of each station that a live edit
\* (syncStationChange, through pushChange) has written to the remote
\* collection itself, 0 where there was none: the push of call t succeeds.
Delivered(t) ==
    IF tasks[t].op = "syncStationChange"
    THEN [delivered EXCEPT ![Top(tasks[t]).change.station.id] =
                                Top(tasks[t]).change.timestamp]
    ELSE delivered

Noted(t, how) ==
    IF tasks[t].op = "pushChange" /\ SyncInFlight
    THEN meanwhile \cup {[userId |-> tasks[t].input.userId,
                           change |-> tasks[t].input.change, how |-> how]}
    ELSE meanwhile

\* A continuation is ready to run: the job queue drains before the event
\* loop delivers another event (a native completion or a new call).
JobReady(t) ==
    /\ Running(t)
    /\ \/ tasks[t].ret.kind # "none"
       \/ Top(tasks[t]).pc = "loaded"
Quiescent == \A t \in TaskIds : ~JobReady(t)

\* AsyncStorage.setItem(PENDING_CHANGES_KEY, JSON.stringify(changes)): the
\* item afterwards.  Requests are served in the order they were made; one
\* that fails (written = FALSE) leaves the item as it was.  The item is kept
\* as the value that JSON.parse reads back from the text.
SetItem(changes, written) ==
    IF written THEN [present |-> TRUE, val |-> changes] ELSE storage

\* createPendingChange(type, station), at clock reading ts
createPendingChange(type, station, ts) ==
    [id |-> nextChangeId, type |-> type, station |-> station, timestamp |-> ts]

\* Date.now() read again: a later millisecond.
ClockReadings == {now + 1}

CreateChange(ts) ==
    /\ nextChangeId <= MaxChanges
    /\ nextChangeId' = nextChangeId + 1
    /\ now' = ts

Spawn(op, input, frames) ==
    [IdleTask EXCEPT !.stack = frames, !.op = op, !.input = input]

\* addPendingChange(change) called (by syncStationChange while offline).
StartAddPendingChange(t, type, station, ts) ==
    /\ Quiescent
    /\ FreeSlot(t)
    /\ CreateChange(ts)
    /\ LET change == createPendingChange(type, station, ts)
       IN  Continue(t,
                Spawn("addPendingChange", [NoInput EXCEPT !.change = change],
                      <<AddEntry(change)>>))
    /\ UNCHANGED <<currentSyncState, storage, remote>>
    /\ UNCHANGED restVars

\* removePendingChange(changeId) called.
StartRemovePendingChange(t, changeId) ==
    /\ Quiescent
    /\ FreeSlot(t)
    /\ Continue(t,
            Spawn("removePendingChange", [NoInput EXCEPT !.changeId = changeId],
                  <<RemoveEntry(changeId)>>))
    /\ UNCHANGED <<currentSyncState, storage, remote, nextChangeId, now>>
    /\ UNCHANGED restVars

\* clearPendingChanges(): savePendingChanges([]) up to its await.
StartClearPendingChanges(t, written) ==
    /\ Quiescent
    /\ FreeSlot(t)
    /\ storage' = SetItem(<<>>, written)
    /\ Commit(t, Spawn("clearPendingChanges", NoInput,
                       <<Frame("clearPendingChanges", "setItem")>>),
              NewArr(1), [heap EXCEPT ![NewArr(1)] = <<>>])
    /\ UNCHANGED <<currentSyncState, remote, nextChangeId, now>>
    /\ UNCHANGED restVars

\* loadPendingChanges after `await AsyncStorage.getItem`: the parsed array
\* becomes the cache and is returned; with nothing stored, or when getItem
\* rejected (ok = FALSE, caught and logged), the cache becomes one new empty
\* array and another one is returned.
LoadPendingChangesGetItem(t, ok) ==
    /\ Quiescent
    /\ Running(t)
    /\ Top(tasks[t]).pc = "getItem"
    /\ LET k == tasks[t]
           f == Top(k)
           stored == IF ok THEN f.stored ELSE NoStored
           a == NewArr(1)
           b == IF stored.present THEN a ELSE NewArr(2)
       IN  Commit(t, SetTop(k, [f EXCEPT !.pc = "loaded", !.arr = b, !.stored = NoStored]),
                  a, [heap EXCEPT ![a] = stored.val, ![b] = stored.val])
    /\ UNCHANGED <<currentSyncState, storage, remote, nextChangeId, now>>
    /\ UNCHANGED restVars

\* addPendingChange after `await loadPendingChanges()`: coalesce in place,
\* then savePendingChanges(changes) up to `await AsyncStorage.setItem`.
AddPendingChangeLoaded(t, written) ==
    /\ At(t, "addPendingChange", "loaded")
    /\ LET k == tasks[t]
           f == Top(k)
           existingIndex == FindIndex(heap[f.arr], f.change.station.id)
           existing == IF existingIndex = 0 THEN NoChange ELSE heap[f.arr][existingIndex]
           changes == Coalesce(heap[f.arr], f.change)
       IN  /\ storage' = SetItem(changes, written)
           /\ Commit(t, SetTop(k, [f EXCEPT !.pc = "setItem", !.arr = NULL,
                                            !.existing = existing]),
                     f.arr, [heap EXCEPT ![f.arr] = changes])
    /\ meanwhile' = Noted(t, "queued")
    /\ UNCHANGED <<currentSyncState, remote, nextChangeId, now>>
    /\ UNCHANGED <<listenerVars, pureVars, observerVars, delivered>>

\* removePendingChange after `await loadPendingChanges()`: filter into a new
\* array, then savePendingChanges(filtered) up to its await.
RemovePendingChangeLoaded(t, written) ==
    /\ At(t, "removePendingChange", "loaded")
    /\ LET k == tasks[t]
           f == Top(k)
           filtered == FilterOut(heap[f.arr], f.changeId)
           a == NewArr(1)
       IN  /\ storage' = SetItem(filtered, written)
           /\ Commit(t, SetTop(k, [f EXCEPT !.pc = "setItem", !.arr = NULL]),
                     a, [heap EXCEPT ![a] = filtered])
    /\ UNCHANGED <<currentSyncState, remote, nextChangeId, now>>
    /\ UNCHANGED restVars

\* savePendingChanges after `await AsyncStorage.setItem` (a rejection is
\* caught and logged): it returns, and so does the function that called it.
SavePendingChangesSetItem(t) ==
    /\ Quiescent
    /\ Running(t)
    /\ Top(tasks[t]).pc = "setItem"
    /\ Continue(t, Return(tasks[t], RetOk))
    /\ UNCHANGED <<currentSyncState, storage, remote, nextChangeId, now>>
    /\ UNCHANGED restVars

\* processPendingChanges(userId) called.
StartProcessPendingChanges(t, userId) ==
    /\ Quiescent
    /\ FreeSlot(t)
    /\ Continue(t,
            Spawn("processPendingChanges", [NoInput EXCEPT !.userId = userId],
                  <<ProcessEntry(userId)>>))
    /\ UNCHANGED <<currentSyncState, storage, remote, nextChangeId, now>>
    /\ UNCHANGED restVars

\* The loop of processPendingChanges goes on with the changes in `rest`:
\* pushStationChange for the first, or return when none is left.
ProcessNext(k, f, rest) ==
    IF rest = <<>>
    THEN Return(k, RetOk)
    ELSE Call([k EXCEPT !.attempts = Append(@, Head(rest))],
              [f EXCEPT !.pc = "awaitPush", !.arr = NULL, !.sorted = rest],
              PushEntry(f.userId, Head(rest)))

\* processPendingChanges after `await getPendingChanges()` with no change.
ProcessPendingChangesEmpty(t) ==
    /\ At(t, "processPendingChanges", "loaded")
    /\ heap[Top(tasks[t]).arr] = <<>>
    /\ Continue(t, Return(tasks[t], RetOk))
    /\ UNCHANGED <<currentSyncState, pendingChangesCache, storage, remote,
                   nextChangeId, now>>
    /\ UNCHANGED restVars

\* processPendingChanges after `await getPendingChanges()`: sort a copy and
\* push the first change.
ProcessPendingChangesLoaded(t) ==
    /\ At(t, "processPendingChanges", "loaded")
    /\ heap[Top(tasks[t]).arr] # <<>>
    /\ LET k == tasks[t]
           f == Top(k)
       IN  Continue(t, ProcessNext(k, f, SortByTimestamp(heap[f.arr])))
    /\ UNCHANGED <<currentSyncState, pendingChangesCache, storage, remote,
                   nextChangeId, now>>
    /\ UNCHANGED restVars

\* processPendingChanges after a successful push: removePendingChange(change.id).
ProcessPendingChangesPushed(t) ==
    /\ Resumed(t, "processPendingChanges", "awaitPush")
    /\ tasks[t].ret.kind = "ok"
    /\ LET k == tasks[t]
           f == Top(k)
       IN  Continue(t,
                Call(k, [f EXCEPT !.pc = "awaitRemove"], RemoveEntry(Head(f.sorted).id)))
    /\ UNCHANGED <<currentSyncState, storage, remote, nextChangeId, now>>
    /\ UNCHANGED restVars

\* processPendingChanges: the push threw a network error, which is rethrown.
ProcessPendingChangesNetworkError(t) ==
    /\ Resumed(t, "processPendingChanges", "awaitPush")
    /\ isNetworkError(tasks[t].ret.kind)
    /\ Continue(t, Return(tasks[t], RetThrow("net")))
    /\ UNCHANGED <<currentSyncState, storage, remote, nextChangeId, now>>
    /\ UNCHANGED restVars

\* processPendingChanges: the push threw another error, which is logged;
\* the loop continues with the next change.
ProcessPendingChangesOtherError(t) ==
    /\ Resumed(t, "processPendingChanges", "awaitPush")
    /\ tasks[t].ret.kind \in ErrorKinds
    /\ ~isNetworkError(tasks[t].ret.kind)
    /\ LET k == tasks[t]
           f == Top(k)
       IN  Continue(t, ProcessNext(k, f, Tail(f.sorted)))
    /\ UNCHANGED <<currentSyncState, storage, remote, nextChangeId, now>>
    /\ UNCHANGED restVars

\* processPendingChanges after `await removePendingChange(change.id)`.
ProcessPendingChangesRemoved(t) ==
    /\ Resumed(t, "processPendingChanges", "awaitRemove")
    /\ LET k == tasks[t]
           f == Top(k)
       IN  Continue(t, ProcessNext(k, f, Tail(f.sorted)))
    /\ UNCHANGED <<currentSyncState, storage, remote, nextChangeId, now>>
    /\ UNCHANGED restVars

\* pushStationChange: the Firestore write of an attempt resolves.
PushStationChangeOk(t, failures) ==
    /\ Quiescent
    /\ At(t, "pushStationChange", "attempt")
    /\ LET f == Top(tasks[t])
       IN  /\ CanApply(remote[f.userId], f.change)
           /\ remote' = [remote EXCEPT ![f.userId] = ApplyChange(remote[f.userId], f.change)]
    /\ Continue(t, WithRetryResolved(tasks[t], failures, RetOk))
    /\ meanwhile' = Noted(t, "pushed")
    /\ delivered' = Delivered(t)
    /\ UNCHANGED <<currentSyncState, storage, nextChangeId, now>>
    /\ UNCHANGED <<listenerVars, pureVars, observerVars>>

\* pushStationChange: the Firestore write of every attempt rejects.
PushStationChangeFail(t, kind) ==
    /\ Quiescent
    /\ At(t, "pushStationChange", "attempt")
    /\ Continue(t, WithRetryRejected(tasks[t], kind))
    /\ UNCHANGED <<currentSyncState, storage, remote, nextChangeId, now>>
    /\ UNCHANGED restVars

\* pushChange(change, userId) called (by syncStationChange while online).
StartPushChange(t, type, station, ts, userId) ==
    /\ Quiescent
    /\ FreeSlot(t)
    /\ CreateChange(ts)
    /\ LET change == createPendingChange(type, station, ts)
       IN  Continue(t,
                Spawn("pushChange", [NoInput EXCEPT !.change = change, !.userId = userId],
                      << [Frame("pushChange", "awaitPush") EXCEPT
                                !.change = change, !.userId = userId],
                         PushEntry(userId, change) >>))
    /\ UNCHANGED <<currentSyncState, storage, remote>>
    /\ UNCHANGED restVars

\* pushChange: the push succeeded.
PushChangePushed(t) ==
    /\ Resumed(t, "pushChange", "awaitPush")
    /\ tasks[t].ret.kind = "ok"
    /\ Continue(t, Return(tasks[t], RetOk))
    /\ UNCHANGED <<currentSyncState, storage, remote, nextChangeId, now>>
    /\ UNCHANGED restVars

\* pushChange: the push threw a network error: addPendingChange(change).
PushChangeNetworkError(t) ==
    /\ Resumed(t, "pushChange", "awaitPush")
    /\ isNetworkError(tasks[t].ret.kind)
    /\ LET k == tasks[t]
           f == Top(k)
       IN  Continue(t,
                Call(k, [f EXCEPT !.pc = "awaitAdd"], AddEntry(f.change)))
    /\ UNCHANGED <<currentSyncState, storage, remote, nextChangeId, now>>
    /\ UNCHANGED restVars

\* pushChange: the push threw another error, which is rethrown.
PushChangeOtherError(t) ==
    /\ Resumed(t, "pushChange", "awaitPush")
    /\ tasks[t].ret.kind = "other"
    /\ Continue(t, Return(tasks[t], RetThrow("other")))
    /\ UNCHANGED <<currentSyncState, storage, remote, nextChangeId, now>>
    /\ UNCHANGED restVars

\* Variant: pushChange queues the change and leaves the state as it is.
PushChangeQueued_keepsState(t) ==
    /\ Resumed(t, "pushChange", "awaitAdd")
    /\ Continue(t, Return(tasks[t], RetOk))
    /\ UNCHANGED <<currentSyncState, storage, remote, nextChangeId, now>>
    /\ UNCHANGED restVars

\* pushChange after `await addPendingChange(change)`: setSyncState('offline').
PushChangeQueued(t) ==
    /\ Resumed(t, "pushChange", "awaitAdd")
    /\ currentSyncState' = setSyncState("offline")
    /\ Continue(t, Return(tasks[t], RetOk))
    /\ UNCHANGED <<storage, remote, nextChangeId, now>>
    /\ UNCHANGED restVars

\* isOnline()
isOnline == isNetworkConnected

\* syncStationChange(type, station) of the stations context, called by a
\* signed-in user after a station was added, edited or removed: the change
\* is queued while offline and handed to pushChange otherwise.
StartSyncStationChange(t, type, station, ts, userId) ==
    /\ Quiescent
    /\ FreeSlot(t)
    /\ CreateChange(ts)
    /\ LET change == createPendingChange(type, station, ts)
           input == [NoInput EXCEPT !.change = change, !.userId = userId]
           own(pc) == [Frame("syncStationChange", pc) EXCEPT
                            !.change = change, !.userId = userId]
       IN  IF ~isOnline
           THEN Continue(t, Spawn("syncStationChange", input,
                                  <<own("awaitAdd"), AddEntry(change)>>))
           ELSE Continue(t, Spawn("syncStationChange", input,
                                  << own("awaitPush"),
                                     [Frame("pushChange", "awaitPush") EXCEPT
                                          !.change = change, !.userId = userId],
                                     PushEntry(userId, change) >>))
    /\ UNCHANGED <<currentSyncState, storage, remote>>
    /\ UNCHANGED restVars

\* syncStationChange after `await addPendingChange(change)`, which is
\* outside the try block.
SyncStationChangeQueued(t) ==
    /\ Resumed(t, "syncStationChange", "awaitAdd")
    /\ Continue(t, Return(tasks[t], tasks[t].ret))
    /\ UNCHANGED <<currentSyncState, storage, remote, nextChangeId, now>>
    /\ UNCHANGED restVars

\* syncStationChange after `await pushChange(change, user.uid)`: it returns,
\* and an error that pushChange threw is caught and logged.
SyncStationChangePushed(t) ==
    /\ Resumed(t, "syncStationChange", "awaitPush")
    /\ Continue(t, Return(tasks[t], RetOk))
    /\ UNCHANGED <<currentSyncState, storage, remote, nextChangeId, now>>
    /\ UNCHANGED restVars


\* downloadStations: collection.get() of an attempt resolves.
DownloadStationsOk(t, failures) ==
    /\ Quiescent
    /\ At(t, "downloadStations", "attempt")
    /\ LET f == Top(tasks[t])
       IN  Continue(t,
                WithRetryResolved(tasks[t], failures,
                                  [RetOk EXCEPT !.list = DownloadedStations(f.userId)]))
    /\ UNCHANGED <<currentSyncState, storage, remote, nextChangeId, now>>
    /\ UNCHANGED restVars

\* downloadStations: collection.get() of every attempt rejects.
DownloadStationsFail(t, kind) ==
    /\ Quiescent
    /\ At(t, "downloadStations", "attempt")
    /\ Continue(t, WithRetryRejected(tasks[t], kind))
    /\ UNCHANGED <<currentSyncState, storage, remote, nextChangeId, now>>
    /\ UNCHANGED restVars

\* uploadStations: `await collection.get()` of an attempt resolves; the
\* batch is filled and batch.commit() is called.
UploadStationsGetOk(t, failures) ==
    /\ Quiescent
    /\ At(t, "uploadStations", "get")
    /\ LET k == tasks[t]
           f == Top(k)
       IN  Continue(t,
                SetTop(NoteFailures(k, failures),
                       [f EXCEPT !.pc = "commit", !.existingDocs = ExistingDocs(f.userId)]))
    /\ UNCHANGED <<currentSyncState, storage, remote, nextChangeId, now>>
    /\ UNCHANGED restVars

\* uploadStations: `await collection.get()` rejects in every attempt left.
UploadStationsGetFail(t, kind) ==
    /\ Quiescent
    /\ At(t, "uploadStations", "get")
    /\ Continue(t, WithRetryRejected(tasks[t], kind))
    /\ UNCHANGED <<currentSyncState, storage, remote, nextChangeId, now>>
    /\ UNCHANGED restVars

\* uploadStations: `await batch.commit()` resolves.
UploadStationsCommitOk(t) ==
    /\ Quiescent
    /\ At(t, "uploadStations", "commit")
    /\ LET f == Top(tasks[t])
       IN  remote' = [remote EXCEPT ![f.userId] =
                CommitBatch(remote[f.userId], f.existingDocs, f.list)]
    /\ Continue(t, WithRetryResolved(tasks[t], 0, RetOk))
    /\ UNCHANGED <<currentSyncState, storage, nextChangeId, now>>
    /\ UNCHANGED restVars

\* uploadStations: `await batch.commit()` rejects, and so does every attempt
\* left; nothing is written.
UploadStationsCommitFail(t, kind) ==
    /\ Quiescent
    /\ At(t, "uploadStations", "commit")
    /\ Continue(t, WithRetryRejected(tasks[t], kind))
    /\ UNCHANGED <<currentSyncState, storage, remote, nextChangeId, now>>
    /\ UNCHANGED restVars

\* The SyncResult objects that syncStations returns.
SyncSuccess(mergedStations) ==
    [RetOk EXCEPT !.flag = TRUE, !.list = mergedStations]
\* Variant: a failed sync hands back no stations.
SyncFailure_dropsLocal(localStations, kind) ==
    [RetOk EXCEPT !.flag = FALSE, !.list = <<>>, !.error = kind]
SyncFailure(localStations, kind) ==
    [RetOk EXCEPT !.flag = FALSE, !.list = localStations, !.error = kind]

\* Variant: every failure is reported as state 'error'.
FailureState_alwaysError(kind) == "error"

\* The state that the catch blocks of syncStations set for a caught error.
FailureState(kind) == IF isNetworkError(kind) THEN "offline" ELSE "error"

\* syncStations(localStations, userId) called: setSyncState('syncing'), then
\* processPendingChanges(userId) up to its first await.
StartSyncStations(t, localStations, userId) ==
    /\ Quiescent
    /\ FreeSlot(t)
    /\ currentSyncState' = setSyncState("syncing")
    /\ Continue(t,
            Spawn("syncStations", [NoInput EXCEPT !.list = localStations, !.userId = userId],
                  << [Frame("syncStations", "awaitProcess") EXCEPT
                            !.list = localStations, !.userId = userId],
                     ProcessEntry(userId) >>))
    /\ meanwhile' = {}
    /\ UNCHANGED <<storage, remote, nextChangeId, now>>
    /\ UNCHANGED <<listenerVars, pureVars, observerVars, delivered>>

\* syncStations after `await processPendingChanges(userId)`: downloadStations.
SyncStationsProcessed(t) ==
    /\ Resumed(t, "syncStations", "awaitProcess")
    /\ tasks[t].ret.kind = "ok"
    /\ LET k == tasks[t]
           f == Top(k)
       IN  Continue(t,
                Call(k, [f EXCEPT !.pc = "awaitDownload"], DownloadEntry(f.userId)))
    /\ UNCHANGED <<currentSyncState, storage, remote, nextChangeId, now>>
    /\ UNCHANGED restVars

\* syncStations: downloadStations threw a network error (the inner catch).
SyncStationsDownloadOffline(t) ==
    /\ Resumed(t, "syncStations", "awaitDownload")
    /\ isNetworkError(tasks[t].ret.kind)
    /\ currentSyncState' = setSyncState("offline")
    /\ Continue(t,
            Return(tasks[t], SyncFailure(Top(tasks[t]).list, tasks[t].ret.kind)))
    /\ UNCHANGED <<storage, remote, nextChangeId, now>>
    /\ UNCHANGED restVars

\* The call has cloudStations = the list that downloadStations resolved with.
Downloaded(t) ==
    /\ Resumed(t, "syncStations", "awaitDownload")
    /\ tasks[t].ret.kind = "ok"

NoteCloud(k) == [k EXCEPT !.cloud = [done |-> TRUE, list |-> k.ret.list]]

\* syncStations: no stations anywhere.
SyncStationsNothing(t) ==
    /\ Downloaded(t)
    /\ Len(Top(tasks[t]).list) = 0 /\ Len(tasks[t].ret.list) = 0
    /\ currentSyncState' = setSyncState("synced")
    /\ Continue(t, Return(NoteCloud(tasks[t]), SyncSuccess(<<>>)))
    /\ UNCHANGED <<storage, remote, nextChangeId, now>>
    /\ UNCHANGED restVars

\* Variant: the first-time sync only reports success.
SyncStationsUploadLocal_noUpload(t) ==
    /\ Downloaded(t)
    /\ Len(Top(tasks[t]).list) > 0 /\ Len(tasks[t].ret.list) = 0
    /\ Continue(t,
            Return(NoteCloud(tasks[t]), SyncSuccess(Top(tasks[t]).list)))
    /\ UNCHANGED <<currentSyncState, storage, remote, nextChangeId, now>>
    /\ UNCHANGED restVars

\* syncStations, first-time sync: uploadStations(userId, localStations).
SyncStationsUploadLocal(t) ==
    /\ Downloaded(t)
    /\ Len(Top(tasks[t]).list) > 0 /\ Len(tasks[t].ret.list) = 0
    /\ LET k == NoteCloud(tasks[t])
           f == Top(k)
       IN  Continue(t,
                Call([k EXCEPT !.uploads = Append(k.uploads, f.list)],
                     [f EXCEPT !.pc = "awaitUpload", !.merged = f.list],
                     UploadEntry(f.userId, f.list)))
    /\ UNCHANGED <<currentSyncState, storage, remote, nextChangeId, now>>
    /\ UNCHANGED restVars

\* Variant: on a new device the (empty) local list is the result.
SyncStationsAdoptCloud_keepsLocal(t) ==
    /\ Downloaded(t)
    /\ Len(Top(tasks[t]).list) = 0 /\ Len(tasks[t].ret.list) > 0
    /\ currentSyncState' = setSyncState("synced")
    /\ Continue(t,
            Return(NoteCloud(tasks[t]), SyncSuccess(Top(tasks[t]).list)))
    /\ UNCHANGED <<storage, remote, nextChangeId, now>>
    /\ UNCHANGED restVars

\* syncStations, new device: the cloud stations are the result.
SyncStationsAdoptCloud(t) ==
    /\ Downloaded(t)
    /\ Len(Top(tasks[t]).list) = 0 /\ Len(tasks[t].ret.list) > 0
    /\ currentSyncState' = setSyncState("synced")
    /\ Continue(t,
            Return(NoteCloud(tasks[t]), SyncSuccess(tasks[t].ret.list)))
    /\ UNCHANGED <<storage, remote, nextChangeId, now>>
    /\ UNCHANGED restVars

\* syncStations, both sides hold stations: merge, then upload the merged list.
SyncStationsMerge(t) ==
    /\ Downloaded(t)
    /\ Len(Top(tasks[t]).list) > 0 /\ Len(tasks[t].ret.list) > 0
    /\ LET k == NoteCloud(tasks[t])
           f == Top(k)
           mergedStations == mergeStations(f.list, tasks[t].ret.list)
       IN  Continue(t,
                Call([k EXCEPT !.uploads = Append(k.uploads, mergedStations)],
                     [f EXCEPT !.pc = "awaitUpload", !.merged = mergedStations],
                     UploadEntry(f.userId, mergedStations)))
    /\ UNCHANGED <<currentSyncState, storage, remote, nextChangeId, now>>
    /\ UNCHANGED restVars

\* syncStations after `await uploadStations(...)`: setSyncState('synced').
SyncStationsUploaded(t) ==
    /\ Resumed(t, "syncStations", "awaitUpload")
    /\ tasks[t].ret.kind = "ok"
    /\ currentSyncState' = setSyncState("synced")
    /\ Continue(t, Return(tasks[t], SyncSuccess(Top(tasks[t]).merged)))
    /\ UNCHANGED <<storage, remote, nextChangeId, now>>
    /\ UNCHANGED restVars

\* syncStations, the outer catch: an error thrown by processPendingChanges
\* or uploadStations, or one rethrown by the inner catch.
SyncStationsCatch(t) ==
    /\ Running(t)
    /\ Top(tasks[t]).fn = "syncStations"
    /\ \/ Top(tasks[t]).pc \in {"awaitProcess", "awaitUpload"} /\ tasks[t].ret.kind \in ErrorKinds
       \/ Top(tasks[t]).pc = "awaitDownload" /\ tasks[t].ret.kind = "other"
    /\ currentSyncState' = setSyncState(FailureState(tasks[t].ret.kind))
    /\ Continue(t,
            Return(tasks[t], SyncFailure(Top(tasks[t]).list, tasks[t].ret.kind)))
    /\ UNCHANGED <<storage, remote, nextChangeId, now>>
    /\ UNCHANGED restVars

\* -- network listener ---------------------------------------------------------

\* NetInfoState.isConnected: boolean | null
IsConnectedValues == {"true", "false", "null"}

\* isConnected ?? fallback
OrElse(isConnected, fallback) ==
    IF isConnected = "null" THEN fallback ELSE isConnected = "true"

\* if (!wasConnected && isNetworkConnected && currentUserId)
JustRestored(wasConnected, connected, userId) ==
    ~wasConnected /\ connected /\ userId # NoUser

\* Variant: with no pending change the state always becomes 'idle'.
NoPendingState_alwaysIdle(state) == "idle"

\* else if (currentSyncState === 'offline') setSyncState('idle'): the
\* state afterwards.
NoPendingState(state) == IF state = "offline" THEN setSyncState("idle") ELSE state

\* hasPendingChanges() up to its first await.
HasPendingEntry == LoadEntry(Frame("hasPendingChanges", ""))

\* startNetworkListener(userId, onNetworkRestored): the user and the
\* callback are stored, handleNetworkChange is subscribed and NetInfo.fetch()
\* is asked for the current state; the slot holds the pending fetch.
StartNetworkListener(t, userId, callback) ==
    /\ Quiescent
    /\ FreeSlot(t)
    /\ currentUserId' = userId
    /\ onNetworkRestoredCallback' = callback
    /\ Continue(t,
            Spawn("startNetworkListener", [NoInput EXCEPT !.userId = userId],
                  <<Frame("startNetworkListener", "fetch")>>))
    /\ UNCHANGED <<currentSyncState, storage, remote, nextChangeId, now>>
    /\ UNCHANGED <<isNetworkConnected, meanwhile, pureVars, observerVars, delivered>>

\* NetInfo.fetch().then(state => ...): the initial network state arrives.
NetInfoFetched(t, isConnected) ==
    /\ Quiescent
    /\ At(t, "startNetworkListener", "fetch")
    /\ isNetworkConnected' = OrElse(isConnected, TRUE)
    /\ currentSyncState' =
            IF ~isNetworkConnected' THEN setSyncState("offline") ELSE currentSyncState
    /\ Continue(t, Return(tasks[t], RetOk))
    /\ UNCHANGED <<storage, remote, nextChangeId, now>>
    /\ UNCHANGED <<currentUserId, onNetworkRestoredCallback, meanwhile, pureVars, observerVars, delivered>>

\* NetInfo delivers a state to the subscribed handleNetworkChange, which
\* runs up to `await hasPendingChanges()`, or to its end on the other
\* branches.
StartHandleNetworkChange(t, isConnected) ==
    /\ Quiescent
    /\ FreeSlot(t)
    /\ currentUserId # NoUser
    /\ LET wasConnected == isNetworkConnected
           connected == OrElse(isConnected, FALSE)
           call == Spawn("handleNetworkChange", NoInput,
                         <<Frame("handleNetworkChange", "awaitHasPending")>>)
       IN  /\ isNetworkConnected' = connected
           /\ IF JustRestored(wasConnected, connected, currentUserId)
              THEN /\ Continue(t, Call(call, Top(call), HasPendingEntry))
                   /\ UNCHANGED currentSyncState
              ELSE IF ~connected /\ currentSyncState # "offline"
              THEN /\ currentSyncState' = setSyncState("offline")
                   /\ Continue(t, Return(Logged(call, <<"offline">>), RetOk))
              ELSE /\ Continue(t, Return(call, RetOk))
                   /\ UNCHANGED currentSyncState
    /\ UNCHANGED <<storage, remote, nextChangeId, now>>
    /\ UNCHANGED <<currentUserId, onNetworkRestoredCallback, meanwhile, pureVars, observerVars, delivered>>

\* hasPendingChanges after `await loadPendingChanges()`: changes.length > 0.
HasPendingChangesLoaded(t) ==
    /\ At(t, "hasPendingChanges", "loaded")
    /\ LET k == tasks[t]
           f == Top(k)
       IN  Continue(t, Return(k, [RetOk EXCEPT !.flag = Len(heap[f.arr]) > 0]))
    /\ UNCHANGED <<currentSyncState, storage, remote, nextChangeId, now>>
    /\ UNCHANGED restVars

\* handleNetworkChange after `await hasPendingChanges()` with pending
\* changes: setSyncState('syncing'), then processPendingChanges(currentUserId)
\* up to its first await.
HandleNetworkChangePending(t) ==
    /\ Resumed(t, "handleNetworkChange", "awaitHasPending")
    /\ tasks[t].ret.flag
    /\ currentSyncState' = setSyncState("syncing")
    /\ LET k == Logged(tasks[t], <<"syncing", "drain">>)
       IN  Continue(t,
                Call(k, [Top(k) EXCEPT !.pc = "awaitProcess"], ProcessEntry(currentUserId)))
    /\ UNCHANGED <<storage, remote, nextChangeId, now>>
    /\ UNCHANGED restVars

\* handleNetworkChange after `await hasPendingChanges()` with no pending
\* change: 'idle' when the state is 'offline', and the handler is done.
HandleNetworkChangeNoPending(t) ==
    /\ Resumed(t, "handleNetworkChange", "awaitHasPending")
    /\ ~tasks[t].ret.flag
    /\ currentSyncState' = NoPendingState(currentSyncState)
    /\ Continue(t,
            Return(IF currentSyncState' # currentSyncState
                   THEN Logged(tasks[t], <<"idle">>) ELSE tasks[t],
                   RetOk))
    /\ UNCHANGED <<storage, remote, nextChangeId, now>>
    /\ UNCHANGED restVars

\* handleNetworkChange after `await processPendingChanges(currentUserId)`:
\* the registered callback is called, or with none setSyncState('synced').
HandleNetworkChangeDrained(t) ==
    /\ Resumed(t, "handleNetworkChange", "awaitProcess")
    /\ tasks[t].ret.kind = "ok"
    /\ IF onNetworkRestoredCallback
       THEN /\ LET k == Logged(tasks[t], <<"drained", "callback">>)
               IN  Continue(t,
                        Call(k, [Top(k) EXCEPT !.pc = "awaitCallback"],
                             Frame("onNetworkRestored", "running")))
            /\ UNCHANGED currentSyncState
       ELSE /\ currentSyncState' = setSyncState("synced")
            /\ Continue(t, Return(Logged(tasks[t], <<"drained", "synced">>), RetOk))
    /\ UNCHANGED <<storage, remote, nextChangeId, now>>
    /\ UNCHANGED restVars

\* The promise of onNetworkRestoredCallback(currentUserId) resolves.
OnNetworkRestoredResolved(t) ==
    /\ Quiescent
    /\ At(t, "onNetworkRestored", "running")
    /\ Continue(t, Return(tasks[t], RetOk))
    /\ UNCHANGED <<currentSyncState, storage, remote, nextChangeId, now>>
    /\ UNCHANGED restVars

\* The promise of onNetworkRestoredCallback(currentUserId) rejects.
OnNetworkRestoredRejected(t, kind) ==
    /\ Quiescent
    /\ At(t, "onNetworkRestored", "running")
    /\ Continue(t, Return(tasks[t], RetThrow(kind)))
    /\ UNCHANGED <<currentSyncState, storage, remote, nextChangeId, now>>
    /\ UNCHANGED restVars

\* handleNetworkChange after `await onNetworkRestoredCallback(currentUserId)`:
\* setSyncState('synced').
HandleNetworkChangeCalled(t) ==
    /\ Resumed(t, "handleNetworkChange", "awaitCallback")
    /\ tasks[t].ret.kind = "ok"
    /\ currentSyncState' = setSyncState("synced")
    /\ Continue(t, Return(Logged(tasks[t], <<"called", "synced">>), RetOk))
    /\ UNCHANGED <<storage, remote, nextChangeId, now>>
    /\ UNCHANGED restVars

\* handleNetworkChange, the catch: processPendingChanges or the callback
\* threw; setSyncState('error').
HandleNetworkChangeCatch(t) ==
    /\ Running(t)
    /\ Top(tasks[t]).fn = "handleNetworkChange"
    /\ Top(tasks[t]).pc \in {"awaitProcess", "awaitCallback"}
    /\ tasks[t].ret.kind \in ErrorKinds
    /\ currentSyncState' = setSyncState("error")
    /\ Continue(t, Return(Logged(tasks[t], <<"error">>), RetOk))
    /\ UNCHANGED <<storage, remote, nextChangeId, now>>
    /\ UNCHANGED restVars

\* handleNetworkChange after `await processPendingChanges(currentUserId)`
\* when the registered callback is App's performSync and the stations are
\* loaded: onNetworkRestoredCallback(currentUserId) runs performSync, which
\* calls syncStations(stations, userId), which runs up to its first await.
HandleNetworkChangeDrainedPerformSync(t, localStations) ==
    /\ Resumed(t, "handleNetworkChange", "awaitProcess")
    /\ tasks[t].ret.kind = "ok"
    /\ onNetworkRestoredCallback
    /\ currentSyncState' = setSyncState("syncing")
    /\ LET k == Logged(tasks[t], <<"drained", "callback">>)
           called(fn, pc) == [Frame(fn, pc) EXCEPT !.list = localStations,
                                                   !.userId = currentUserId]
       IN  Continue(t,
                [k EXCEPT !.ret = NoRet,
                          !.stack = SubSeq(k.stack, 1, Len(k.stack) - 1) \o
                                    << [Top(k) EXCEPT !.pc = "awaitCallback"],
                                       called("performSync", "awaitSync"),
                                       called("syncStations", "awaitProcess"),
                                       ProcessEntry(currentUserId) >>])
    /\ meanwhile' = {}
    /\ UNCHANGED <<storage, remote, nextChangeId, now>>
    /\ UNCHANGED <<listenerVars, pureVars, observerVars, delivered>>

\* performSync after `await syncService.syncStations(stations, userId)`: the
\* merged list of a successful sync goes to the stations context
\* (setStationsFromSync, which the sync service does not see), and the
\* promise of the callback resolves.
PerformSyncSynced(t) ==
    /\ Resumed(t, "performSync", "awaitSync")
    /\ LET k == tasks[t]
       IN  Continue(t,
                Return([Logged(k, <<IF k.ret.flag THEN "resynced" ELSE "resyncFailed">>)
                            EXCEPT !.ret = k.ret],
                       RetOk))
    /\ UNCHANGED <<currentSyncState, storage, remote, nextChangeId, now>>
    /\ UNCHANGED restVars

(***************************************************************************)
(* Observers of the sync state.                                            *)
(***************************************************************************)

\* Bound: the calls of one unsubscribe function.
MaxUnsubscribes == 2

\* The rest of the system while the observer functions run: they are
\* synchronous and touch only the state and the listeners.
observerFrame ==
    <<pendingChangesCache, heap, tasks, storage, remote, nextChangeId, now,
      listenerVars, meanwhile, pureVars, delivered>>

\* What a call of one of the observer functions left behind.
ObserverCall(op, thrown) ==
    [IdleTask EXCEPT !.op = op,
                     !.outcome = IF thrown THEN RetThrow("other") ELSE RetOk]

\* setSyncState(state) with registered observers, of which throwers throw.
SetSyncState(state, throwers) ==
    /\ Quiescent
    /\ Len(transitions) < MaxTransitions
    /\ IF StateDiffers(currentSyncState, state)
       THEN \E r \in {notifySyncStateListeners(syncStateListeners, observers,
                                               state, throwers)} :
              /\ currentSyncState' = state
              /\ transitions' = Append(transitions, state)
              /\ observers' = r.observers
              /\ returned' = ObserverCall("setSyncState", r.thrown)
       ELSE /\ returned' = ObserverCall("setSyncState", FALSE)
            /\ UNCHANGED <<currentSyncState, transitions, observers>>
    /\ UNCHANGED <<syncStateListeners, observerFrame>>

\* onSyncStateChanged(callback) with a function not passed before: it is
\* added, then called with the current state outside any try block, and only
\* a call that returns gives the caller the unsubscribe function.
OnSyncStateChanged(cb, throws) ==
    /\ Quiescent
    /\ observers[cb] = NotCalled
    /\ syncStateListeners' = Append(syncStateListeners, cb)
    /\ observers' = Invoked([observers EXCEPT ![cb].since = Len(transitions),
                                              ![cb].handle = ~throws],
                            cb, currentSyncState, throws)
    /\ returned' = ObserverCall("onSyncStateChanged", throws)
    /\ UNCHANGED <<currentSyncState, transitions, observerFrame>>

\* The function onSyncStateChanged returned, called once more.
Unsubscribe(cb) ==
    /\ Quiescent
    /\ observers[cb].handle
    /\ observers[cb].unsubscribed < MaxUnsubscribes
    /\ syncStateListeners' = Deleted(syncStateListeners, cb)
    /\ observers' = [observers EXCEPT ![cb].unsubscribed = @ + 1]
    /\ returned' = ObserverCall("unsubscribe", FALSE)
    /\ UNCHANGED <<currentSyncState, transitions, observerFrame>>

\* handleSignOut (App.tsx): stopNetworkListener(), which unsubscribes from
\* NetInfo and forgets the user and the callback, then setSyncState('idle').
\* Calls in flight go on.
HandleSignOut ==
    /\ Quiescent
    /\ currentUserId # NoUser
    /\ currentUserId' = NoUser
    /\ onNetworkRestoredCallback' = FALSE
    /\ currentSyncState' = setSyncState("idle")
    /\ returned' = IdleTask
    /\ UNCHANGED <<pendingChangesCache, heap, tasks, storage, remote, nextChangeId, now>>
    /\ UNCHANGED <<isNetworkConnected, meanwhile, pureVars, observerVars, delivered>>

\* The app is closed and opened again: the module is loaded anew, while
\* AsyncStorage and Firestore keep what they hold.
Restart ==
    /\ currentSyncState' = "idle"
    /\ pendingChangesCache' = NULL
    /\ heap' = [a \in ArrIds |-> <<>>]
    /\ tasks' = [t \in TaskIds |-> IdleTask]
    /\ returned' = IdleTask
    /\ isNetworkConnected' = TRUE
    /\ currentUserId' = NoUser
    /\ onNetworkRestoredCallback' = FALSE
    /\ meanwhile' = {}
    /\ syncStateListeners' = <<>>
    /\ observers' = [cb \in Callbacks |-> NotCalled]
    /\ transitions' = <<>>
    /\ delivered' = [sid \in StationIds |-> 0]
    /\ UNCHANGED <<storage, remote, nextChangeId, now>>
    /\ UNCHANGED pureVars

\* syncService.ts as loaded: currentSyncState = 'idle', pendingChangesCache =
\* null, nothing in flight; AsyncStorage and Firestore hold nothing yet.
SysIdle ==
    /\ currentSyncState = "idle"
    /\ pendingChangesCache = NULL
    /\ heap = [a \in ArrIds |-> <<>>]
    /\ storage = NoStored
    /\ remote = [u \in DeviceUsers |-> [sid \in StationIds |-> NoStation]]
    /\ tasks = [t \in TaskIds |-> IdleTask]
    /\ returned = IdleTask
    /\ nextChangeId = 1
    /\ now = 0
    /\ isNetworkConnected = TRUE
    /\ currentUserId = NoUser
    /\ onNetworkRestoredCallback = FALSE
    /\ meanwhile = {}
    /\ syncStateListeners = <<>>
    /\ observers = [cb \in Callbacks |-> NotCalled]
    /\ transitions = <<>>
    /\ delivered = [sid \in StationIds |-> 0]

----------------------------------------------------------------------------
(* Inputs of the merge harness                                             *)

\* Bound: the total number of stations in the two lists handed to merge.
MaxMergeLen == 3

MergeIds == {"1", "2"}
MergeNames == {"A", "B"}
\* Two URLs in two spellings each: case and surrounding white space differ.
MergeUrls == { <<"x">>, <<"X", " ">>, <<"y">>, <<" ", "Y">> }

MergeStation == [id : MergeIds, name : MergeNames, url : MergeUrls]

SeqsUpTo(S, n) == UNION {[1..k -> S] : k \in 0..n}

MergeInit ==
    /\ local \in SeqsUpTo(MergeStation, MaxMergeLen)
    /\ cloud \in SeqsUpTo(MergeStation, MaxMergeLen - Len(local))
    /\ merged = [done |-> FALSE, val |-> <<>>]
    /\ stations = <<>>
    /\ json = [set |-> FALSE, from |-> "input", text |-> <<>>]
    /\ result = [done |-> FALSE, val |-> Thrown]
    /\ retry = RetryIdle
    /\ SysIdle

\* const merged = mergeStations(local, cloud)
Merge ==
    /\ ~merged.done
    /\ merged' = [done |-> TRUE, val |-> mergeStations(local, cloud)]
    /\ UNCHANGED <<local, cloud>>
    /\ UNCHANGED serVars
    /\ UNCHANGED retry
    /\ UNCHANGED sysVars

SpecMerge == MergeInit /\ [][Merge]_vars

----------------------------------------------------------------------------
(* Inputs of the serializer harness                                        *)

\* Bound: the length of the station lists handed to serialize.
MaxSerLen == 2
\* Bound: the length of the raw texts handed to deserialize.
MaxTextLen == 3

\* Field values: the empty string, and strings with characters that
\* JSON.stringify escapes or that are JSON punctuation.
SerStrings == { <<>>, <<"a", "\"">>, <<"\\", "\n", ",">> }

SerStation == [id : SerStrings, name : SerStrings, url : SerStrings]

\* Raw texts: every character sequence up to MaxTextLen over these.
RawChars == {"[", "]", "{", "}", "\"", ",", ":", "1", "a", " "}

\* Schema-invalid (and some valid) payloads, built as JavaScript values and
\* written by JSON.stringify: each of id, name, url absent, a string, a
\* number or null.
FieldKinds == {"absent", "string", "number", "null"}

FieldValue(kind) ==
    CASE kind = "string" -> JSString(<<"a">>)
      [] kind = "number" -> JSNumber(<<"1">>)
      [] OTHER -> JSNull

ObjectOf(kid, kname, kurl) ==
    JSObject(
        (IF kid = "absent" THEN <<>> ELSE <<[key |-> KeyId, val |-> FieldValue(kid)]>>)
        \o (IF kname = "absent" THEN <<>> ELSE <<[key |-> KeyName, val |-> FieldValue(kname)]>>)
        \o (IF kurl = "absent" THEN <<>> ELSE <<[key |-> KeyUrl, val |-> FieldValue(kurl)]>>))

ValidElementText == JSONstringify(ObjectOf("string", "string", "string"))

ElementTexts ==
    {JSONstringify(ObjectOf(a, b, c)) : a, b, c \in FieldKinds}
    \cup { JSONstringify(JSString(<<"a">>)),
           JSONstringify(JSNumber(<<"1">>)),
           JSONstringify(JSNull),
           JSONstringify(JSBoolean(<<"t", "r", "u", "e">>)),
           JSONstringify(JSArray(<<>>)),
           \* an extra property beside the three
           JSONstringify(JSObject(ObjectOf("string", "string", "string").fields
                \o <<[key |-> <<"x">>, val |-> JSNumber(<<"1">>)]>>)),
           \* a repeated key: the last value is the one parsed
           JSONstringify(JSObject(<<[key |-> KeyId, val |-> JSNumber(<<"1">>)]>>
                \o ObjectOf("string", "string", "string").fields)),
           JSONstringify(JSObject(ObjectOf("string", "string", "string").fields
                \o <<[key |-> KeyId, val |-> JSNull]>>)) }

PayloadTexts ==
    ElementTexts
    \cup {<<"[">> \o e \o <<"]">> : e \in ElementTexts}
    \cup {<<"[">> \o ValidElementText \o <<",">> \o e \o <<"]">> : e \in ElementTexts}
    \cup {<<"[", " ">> \o e \o <<" ", ",">> \o ValidElementText \o <<"]">> : e \in ElementTexts}

\* Text t without its k-th character.
DropChar(t, k) == SubSeq(t, 1, k - 1) \o SubSeq(t, k + 1, Len(t))

\* Damaged serializations: serialize of a one-station list less one character.
DamagedTexts ==
    UNION { {DropChar(serialize(<<st>>), k) : k \in 1..Len(serialize(<<st>>))}
            : st \in SerStation }

DeserializeInputs == SeqsUpTo(RawChars, MaxTextLen) \cup PayloadTexts \cup DamagedTexts

SerInit ==
    /\ \/ /\ stations \in SeqsUpTo(SerStation, MaxSerLen)
          /\ json = [set |-> FALSE, from |-> "serialize", text |-> <<>>]
       \/ /\ stations = <<>>
          /\ json \in [set : {TRUE}, from : {"input"}, text : DeserializeInputs]
    /\ result = [done |-> FALSE, val |-> Thrown]
    /\ local = <<>>
    /\ cloud = <<>>
    /\ merged = [done |-> FALSE, val |-> <<>>]
    /\ retry = RetryIdle
    /\ SysIdle

\* const json = serialize(stations)
Serialize ==
    /\ ~json.set
    /\ json' = [set |-> TRUE, from |-> "serialize", text |-> serialize(stations)]
    /\ UNCHANGED <<stations, result>>
    /\ UNCHANGED mergeVars
    /\ UNCHANGED retry
    /\ UNCHANGED sysVars

\* const result = deserialize(json)
Deserialize ==
    /\ json.set
    /\ ~result.done
    /\ result' = [done |-> TRUE, val |-> deserialize(json.text)]
    /\ UNCHANGED <<stations, json>>
    /\ UNCHANGED mergeVars
    /\ UNCHANGED retry
    /\ UNCHANGED sysVars

SpecSerializer == SerInit /\ [][Serialize \/ Deserialize]_vars

----------------------------------------------------------------------------
(* withRetry(operation) followed attempt by attempt                        *)

\* The errors that operation() may reject with (distinct Error objects) and
\* the values it may resolve with.
RetryErrors == {"e1", "e2", "e3"}
RetryValues == {"v1", "v2"}

\* withRetry(operation) has been called with the default maxRetries and
\* baseDelay: attempt = 0, lastError = null.
RetryInit ==
    /\ retry = [RetryIdle EXCEPT !.pc = "called", !.maxRetries = MaxRetries,
                                 !.baseDelay = BaseRetryDelay]
    /\ local = <<>>
    /\ cloud = <<>>
    /\ merged = [done |-> FALSE, val |-> <<>>]
    /\ stations = <<>>
    /\ json = [set |-> FALSE, from |-> "input", text |-> <<>>]
    /\ result = [done |-> FALSE, val |-> Thrown]
    /\ SysIdle

\* The body of withRetry starts: the first loop test.
WithRetryCalled ==
    /\ retry.pc = "called"
    /\ retry' = RetryLoop(retry)
    /\ UNCHANGED <<mergeVars, serVars, sysVars>>

\* `return await operation()`: the attempt resolves with value v.
OperationResolves(v) ==
    /\ retry.pc = "operation"
    /\ retry' = [retry EXCEPT !.pc = "returned", !.value = v,
                              !.calls = Append(@, [ok |-> TRUE, val |-> v])]
    /\ UNCHANGED <<mergeVars, serVars, sysVars>>

\* The attempt rejects with error e (the catch block): lastError = e; with
\* retries left sleep(delay) is awaited, otherwise attempt++ and the loop test.
OperationRejects(e) ==
    /\ retry.pc = "operation"
    /\ LET r == [retry EXCEPT !.lastError = e,
                              !.calls = Append(@, [ok |-> FALSE, val |-> e])]
       IN  retry' =
              IF RetriesLeft(r.attempt, r.maxRetries)
              THEN [r EXCEPT !.pc = "sleep",
                             !.sleeps = Append(@, Delay(r.baseDelay, r.attempt))]
              ELSE RetryLoop([r EXCEPT !.attempt = @ + 1])
    /\ UNCHANGED <<mergeVars, serVars, sysVars>>

\* `await sleep(delay)` resolves: attempt++ and the loop test.
SleepResolves ==
    /\ retry.pc = "sleep"
    /\ retry' = RetryLoop([retry EXCEPT !.attempt = @ + 1])
    /\ UNCHANGED <<mergeVars, serVars, sysVars>>

RetryNext ==
    \/ WithRetryCalled
    \/ \E v \in RetryValues : OperationResolves(v)
    \/ \E e \in RetryErrors : OperationRejects(e)
    \/ SleepResolves

SpecRetry == RetryInit /\ [][RetryNext]_vars

\* The harness variables while the app runs: not in use.
PureIdle ==
    /\ local = <<>>
    /\ cloud = <<>>
    /\ merged = [done |-> FALSE, val |-> <<>>]
    /\ stations = <<>>
    /\ json = [set |-> FALSE, from |-> "input", text |-> <<>>]
    /\ result = [done |-> FALSE, val |-> Thrown]
    /\ retry = RetryIdle

----------------------------------------------------------------------------
(* The running app: calls of the queue and sync functions in flight.       *)

\* Bound: PendingChange objects created in one run with calls that overlap.
MaxRacingChanges == 2
\* Bound: PendingChange objects created in one run with syncStations calls.
MaxSyncChanges == 1

\* The ids of the changes created so far.
ChangeIds == 1..(nextChangeId - 1)

\* The station that syncStationChange(type, station) is called with: a
\* station as it was added, or after an edit of its URL.
StationAdded(sid) == [id |-> sid, name |-> "A", url |-> <<"x">>]
StationEdited(sid) == [id |-> sid, name |-> "A", url |-> <<"y">>]
ChangedStation(type, sid) ==
    IF type = "update" THEN StationEdited(sid) ELSE StationAdded(sid)

\* AsyncStorage requests may fail, or (where calls overlap) all succeed.
MayFail == BOOLEAN
Succeeds == {TRUE}

\* The next step of the call in slot t: queue functions and pushes, with
\* AsyncStorage requests ending in one of `outcomes`.
QueueStep(t, outcomes) ==
    \/ \E ok \in outcomes : LoadPendingChangesGetItem(t, ok)
    \/ \E written \in outcomes : AddPendingChangeLoaded(t, written)
    \/ \E written \in outcomes : RemovePendingChangeLoaded(t, written)
    \/ SavePendingChangesSetItem(t)
    \/ ProcessPendingChangesEmpty(t)
    \/ ProcessPendingChangesLoaded(t)
    \/ ProcessPendingChangesPushed(t)
    \/ ProcessPendingChangesNetworkError(t)
    \/ ProcessPendingChangesOtherError(t)
    \/ ProcessPendingChangesRemoved(t)
    \/ \E failures \in Failures : PushStationChangeOk(t, failures)
    \/ \E kind \in ErrorKinds : PushStationChangeFail(t, kind)
    \/ PushChangePushed(t)
    \/ PushChangeNetworkError(t)
    \/ PushChangeOtherError(t)
    \/ PushChangeQueued(t)

\* The next step of the call in slot t: download, upload and syncStations.
SyncStep(t) ==
    \/ \E failures \in Failures : DownloadStationsOk(t, failures)
    \/ \E kind \in ErrorKinds : DownloadStationsFail(t, kind)
    \/ \E failures \in Failures : UploadStationsGetOk(t, failures)
    \/ \E kind \in ErrorKinds : UploadStationsGetFail(t, kind)
    \/ UploadStationsCommitOk(t)
    \/ \E kind \in ErrorKinds : UploadStationsCommitFail(t, kind)
    \/ SyncStationsProcessed(t)
    \/ SyncStationsDownloadOffline(t)
    \/ SyncStationsNothing(t)
    \/ SyncStationsUploadLocal(t)
    \/ SyncStationsAdoptCloud(t)
    \/ SyncStationsMerge(t)
    \/ SyncStationsUploaded(t)
    \/ SyncStationsCatch(t)

Init ==
    /\ SysIdle
    /\ PureIdle

\* The pending-change queue, one call at a time: each call of a queue
\* function or of pushChange returns before the next one is made; the app
\* may be restarted at any moment.
QueueNext ==
    \/ \E type \in ChangeTypes, sid \in StationIds, ts \in ClockReadings :
            StartAddPendingChange(1, type, ChangedStation(type, sid), ts)
    \/ \E changeId \in ChangeIds : StartRemovePendingChange(1, changeId)
    \/ \E written \in MayFail : StartClearPendingChanges(1, written)
    \/ \E userId \in Users : StartProcessPendingChanges(1, userId)
    \/ \E type \in ChangeTypes, sid \in StationIds, ts \in ClockReadings, userId \in Users :
            StartPushChange(1, type, ChangedStation(type, sid), ts, userId)
    \/ QueueStep(1, MayFail)
    \/ Restart

SpecQueue == Init /\ [][QueueNext]_vars

\* The pending-change queue with calls that overlap: the queue functions
\* and pushChange called in any order and interleaving, with restarts.
Next ==
    \/ \E t \in TaskIds, type \in ChangeTypes, sid \in StationIds, ts \in ClockReadings :
            /\ nextChangeId <= MaxRacingChanges
            /\ StartAddPendingChange(t, type, ChangedStation(type, sid), ts)
    \/ \E t \in TaskIds, changeId \in ChangeIds : StartRemovePendingChange(t, changeId)
    \/ \E t \in TaskIds, written \in Succeeds : StartClearPendingChanges(t, written)
    \/ \E t \in TaskIds, userId \in Users : StartProcessPendingChanges(t, userId)
    \/ \E t \in TaskIds, type \in ChangeTypes, sid \in StationIds, ts \in ClockReadings,
          userId \in Users :
            /\ nextChangeId <= MaxRacingChanges
            /\ StartPushChange(t, type, ChangedStation(type, sid), ts, userId)
    \/ \E t \in TaskIds : QueueStep(t, Succeeds)
    \/ Restart

Spec == Init /\ [][Next]_vars

\* localStations as the app keeps them (station ids are distinct): no
\* station, or two of which one was edited.
LocalLists ==
    { <<>>,
      <<StationEdited("s1"), StationAdded("s2")>> }

Step(t) == QueueStep(t, Succeeds) \/ SyncStep(t)

\* Synchronisation: syncStations calls, one at a time, and pushChange calls
\* at any moment.
SyncNext ==
    \/ \E t \in TaskIds, localStations \in LocalLists, userId \in Users :
            /\ ~SyncInFlight
            /\ StartSyncStations(t, localStations, userId)
    \/ \E t \in TaskIds, type \in ChangeTypes, sid \in StationIds, ts \in ClockReadings,
          userId \in Users :
            /\ nextChangeId <= MaxSyncChanges
            /\ StartPushChange(t, type, ChangedStation(type, sid), ts, userId)
    \/ \E t \in TaskIds : Step(t)

\* AsyncStorage and Firestore requests settle and the event loop keeps
\* running: while some call can take a step, one of them does.
AnyStep == \E t \in TaskIds : Step(t)

SpecSync == Init /\ [][SyncNext]_vars /\ WF_vars(AnyStep)

\* Bound: PendingChange objects created in one run of calls made one by one.
MaxSerialChanges == 2

\* localStations as the app keeps them: no station, one station that was
\* edited on this device, or that one and a second one.
SerialLocalLists ==
    { <<>>,
      <<StationEdited("s1")>>,
      <<StationEdited("s1"), StationAdded("s2")>> }

\* The app with one call at a time: a change made while offline is queued, a
\* change made while online is pushed, and a full sync runs, each returning
\* before the next call is made.
SerialNext ==
    \/ \E type \in ChangeTypes, sid \in StationIds, ts \in ClockReadings :
            /\ nextChangeId <= MaxSerialChanges
            /\ StartAddPendingChange(1, type, ChangedStation(type, sid), ts)
    \/ \E type \in ChangeTypes, sid \in StationIds, ts \in ClockReadings, userId \in Users :
            /\ nextChangeId <= MaxSerialChanges
            /\ StartPushChange(1, type, ChangedStation(type, sid), ts, userId)
    \/ \E localStations \in SerialLocalLists, userId \in Users :
            StartSyncStations(1, localStations, userId)
    \/ Step(1)

SpecSerial == Init /\ [][SerialNext]_vars

\* Bound: PendingChange objects created in one run with uploadStations calls.
MaxUploadChanges == 2

\* The lists handed to uploadStations: no station, or one.
UploadLists == { <<>>, <<StationEdited("s1")>> }

\* uploadStations(userId, stations) called: withRetry calls the operation,
\* which runs up to `await collection.get()`.
StartUploadStations(t, userId, list) ==
    /\ Quiescent
    /\ FreeSlot(t)
    /\ Continue(t,
            Spawn("uploadStations", [NoInput EXCEPT !.list = list, !.userId = userId],
                  <<UploadEntry(userId, list)>>))
    /\ UNCHANGED <<currentSyncState, storage, remote, nextChangeId, now>>
    /\ UNCHANGED restVars

\* The next step of the call in slot t: a pushChange call.
PushChangeStep(t) ==
    \/ \E failures \in Failures : PushStationChangeOk(t, failures)
    \/ \E kind \in ErrorKinds : PushStationChangeFail(t, kind)
    \/ PushChangePushed(t)
    \/ PushChangeNetworkError(t)
    \/ PushChangeOtherError(t)
    \/ \E ok \in Succeeds : LoadPendingChangesGetItem(t, ok)
    \/ \E written \in Succeeds : AddPendingChangeLoaded(t, written)
    \/ SavePendingChangesSetItem(t)
    \/ PushChangeQueued(t)

\* The next step of the call in slot t: an uploadStations call.
UploadStep(t) ==
    \/ \E failures \in Failures : UploadStationsGetOk(t, failures)
    \/ \E kind \in ErrorKinds : UploadStationsGetFail(t, kind)
    \/ UploadStationsCommitOk(t)
    \/ \E kind \in ErrorKinds : UploadStationsCommitFail(t, kind)

\* uploadStations calls, one at a time, and pushChange calls for the same
\* user at any moment.
UploadNext ==
    \/ \E t \in TaskIds, list \in UploadLists, userId \in Users :
            /\ \A other \in TaskIds : tasks[other].op # "uploadStations"
            /\ StartUploadStations(t, userId, list)
    \/ \E t \in TaskIds, type \in ChangeTypes, sid \in StationIds, ts \in ClockReadings,
          userId \in Users :
            /\ nextChangeId <= MaxUploadChanges
            /\ StartPushChange(t, type, ChangedStation(type, sid), ts, userId)
    \/ \E t \in TaskIds : PushChangeStep(t)
    \/ \E t \in TaskIds : UploadStep(t)

SpecUpload == Init /\ [][UploadNext]_vars

\* Date.now() read again: the same millisecond or a later one.
SameOrLater == {now, now + 1}

\* The next step of the call in slot t: addPendingChange and
\* processPendingChanges with what they call.
DrainQueueStep(t) ==
    \/ \E ok \in Succeeds : LoadPendingChangesGetItem(t, ok)
    \/ \E written \in Succeeds : AddPendingChangeLoaded(t, written)
    \/ \E written \in Succeeds : RemovePendingChangeLoaded(t, written)
    \/ SavePendingChangesSetItem(t)
    \/ ProcessPendingChangesEmpty(t)
    \/ ProcessPendingChangesLoaded(t)
    \/ ProcessPendingChangesPushed(t)
    \/ ProcessPendingChangesNetworkError(t)
    \/ ProcessPendingChangesOtherError(t)
    \/ ProcessPendingChangesRemoved(t)
    \/ \E failures \in Failures : PushStationChangeOk(t, failures)
    \/ \E kind \in ErrorKinds : PushStationChangeFail(t, kind)

\* The queue is filled and drained, one call at a time; changes may carry
\* the same timestamp.
DrainNext ==
    \/ \E type \in ChangeTypes, sid \in StationIds, ts \in SameOrLater :
            StartAddPendingChange(1, type, ChangedStation(type, sid), ts)
    \/ \E userId \in Users : StartProcessPendingChanges(1, userId)
    \/ DrainQueueStep(1)

SpecDrain == Init /\ [][DrainNext]_vars

\* The next step of the call in slot t, in a session with an empty queue.
SessionStep(t) ==
    \/ \E isConnected \in IsConnectedValues : NetInfoFetched(t, isConnected)
    \/ \E ok \in Succeeds : LoadPendingChangesGetItem(t, ok)
    \/ ProcessPendingChangesEmpty(t)
    \/ HasPendingChangesLoaded(t)
    \/ HandleNetworkChangeNoPending(t)
    \/ SyncStep(t)

\* Sessions: the user signs in (handleSignIn: startNetworkListener, and
\* performSync now or when the stations are loaded), NetInfo reports network
\* states while subscribed, and the user signs out at any moment.
SessionNext ==
    \/ \E t \in TaskIds, userId \in Users, callback \in BOOLEAN :
            /\ currentUserId = NoUser
            /\ StartNetworkListener(t, userId, callback)
    \/ \E t \in TaskIds, localStations \in LocalLists :
            /\ currentUserId # NoUser
            /\ ~SyncInFlight
            /\ StartSyncStations(t, localStations, currentUserId)
    \/ \E t \in TaskIds, isConnected \in IsConnectedValues :
            StartHandleNetworkChange(t, isConnected)
    \/ HandleSignOut
    \/ \E t \in TaskIds : SessionStep(t)

SpecSession == Init /\ [][SessionNext]_vars

\* Bound: PendingChange objects created in one run of the self-healing
\* scenario.
MaxHealChanges == 1

\* The changes whose write Firestore accepts whatever the collection holds
\* (docRef.update() needs the document to exist).
AlwaysApplicable == {"add", "delete"}

\* The next step of the call in slot t.  Remote calls fail only inside
\* pushChange, of which there are finitely many: from some point on every
\* remote call succeeds (and so does the callback).
HealStep(t) ==
    \/ \E isConnected \in IsConnectedValues : NetInfoFetched(t, isConnected)
    \/ \E ok \in Succeeds : LoadPendingChangesGetItem(t, ok)
    \/ \E written \in Succeeds : AddPendingChangeLoaded(t, written)
    \/ \E written \in Succeeds : RemovePendingChangeLoaded(t, written)
    \/ SavePendingChangesSetItem(t)
    \/ ProcessPendingChangesLoaded(t)
    \/ ProcessPendingChangesPushed(t)
    \/ ProcessPendingChangesRemoved(t)
    \/ \E failures \in Failures : PushStationChangeOk(t, failures)
    \/ \E kind \in ErrorKinds :
            /\ tasks[t].op = "pushChange"
            /\ PushStationChangeFail(t, kind)
    \/ PushChangePushed(t)
    \/ PushChangeNetworkError(t)
    \/ PushChangeOtherError(t)
    \/ PushChangeQueued(t)
    \/ HasPendingChangesLoaded(t)
    \/ HandleNetworkChangePending(t)
    \/ HandleNetworkChangeNoPending(t)
    \/ HandleNetworkChangeDrained(t)
    \/ OnNetworkRestoredResolved(t)
    \/ HandleNetworkChangeCalled(t)

\* Some call takes its next step.
AnyHealStep == \E t \in TaskIds : HealStep(t)

\* NetInfo reports that the device is connected.
ReportsConnected == \E t \in TaskIds : StartHandleNetworkChange(t, "true")

\* The user signs in once and stays signed in; the app pushes changes
\* (syncStationChange while isOnline()), and NetInfo reports network states.
HealNext ==
    \/ \E t \in TaskIds, userId \in Users, callback \in BOOLEAN :
            /\ currentUserId = NoUser
            /\ StartNetworkListener(t, userId, callback)
    \/ \E t \in TaskIds, type \in AlwaysApplicable, sid \in StationIds, ts \in ClockReadings :
            /\ currentUserId # NoUser
            /\ isNetworkConnected
            /\ nextChangeId <= MaxHealChanges
            /\ StartPushChange(t, type, ChangedStation(type, sid), ts, currentUserId)
    \/ \E t \in TaskIds, isConnected \in IsConnectedValues :
            StartHandleNetworkChange(t, isConnected)
    \/ AnyHealStep

\* Requests settle and continuations run; NetInfo keeps reporting that the
\* device is connected.
SpecHeal ==
    Init /\ [][HealNext]_vars /\ WF_vars(AnyHealStep) /\ WF_vars(ReportsConnected)

(***************************************************************************)
(* Observers: registrations, changes of state and unsubscriptions, one     *)
(* call at a time.                                                         *)
(***************************************************************************)

ObserverNext ==
    \/ \E cb \in Callbacks, throws \in BOOLEAN : OnSyncStateChanged(cb, throws)
    \/ \E state \in SyncStates, throwers \in SUBSET Callbacks :
          /\ \A cb \in throwers : \E i \in 1..Len(syncStateListeners) :
                                     syncStateListeners[i] = cb
          /\ SetSyncState(state, throwers)
    \/ \E cb \in Callbacks : Unsubscribe(cb)

SpecObservers == Init /\ [][ObserverNext]_vars

(***************************************************************************)
(* Live edits: a signed-in user adds, edits and removes stations, one      *)
(* syncStationChange at a time, while NetInfo may report a disconnect.     *)
(***************************************************************************)

\* Bound: PendingChange objects created in one run of live edits.
MaxLiveChanges == 2

\* NetInfo states that handleNetworkChange reads as disconnected.
Disconnected == {"false", "null"}

LiveStep(t) ==
    \/ \E isConnected \in IsConnectedValues : NetInfoFetched(t, isConnected)
    \/ \E ok \in Succeeds : LoadPendingChangesGetItem(t, ok)
    \/ \E written \in Succeeds : AddPendingChangeLoaded(t, written)
    \/ SavePendingChangesSetItem(t)
    \/ \E failures \in Failures : PushStationChangeOk(t, failures)
    \/ \E kind \in ErrorKinds : PushStationChangeFail(t, kind)
    \/ PushChangePushed(t)
    \/ PushChangeNetworkError(t)
    \/ PushChangeOtherError(t)
    \/ PushChangeQueued(t)
    \/ SyncStationChangeQueued(t)
    \/ SyncStationChangePushed(t)

LiveNext ==
    \/ \E userId \in Users :
            /\ currentUserId = NoUser
            /\ StartNetworkListener(1, userId, FALSE)
    \/ \E type \in ChangeTypes, sid \in StationIds, ts \in ClockReadings :
            /\ currentUserId # NoUser
            /\ nextChangeId <= MaxLiveChanges
            /\ StartSyncStationChange(1, type, ChangedStation(type, sid), ts,
                                      currentUserId)
    \/ \E isConnected \in Disconnected : StartHandleNetworkChange(1, isConnected)
    \/ LiveStep(1)

SpecLive == Init /\ [][LiveNext]_vars

(***************************************************************************)
(* Changes queued while the queue is drained: addPendingChange calls at    *)
(* any moment, and one processPendingChanges at a time.                    *)
(***************************************************************************)

\* Bound: PendingChange objects created in one run with a drain in flight.
MaxCoalesceChanges == 3

DrainInFlight == \E t \in TaskIds : tasks[t].op = "processPendingChanges"

CoalesceNext ==
    \/ \E t \in TaskIds, type \in ChangeTypes, sid \in StationIds, ts \in ClockReadings :
            /\ nextChangeId <= MaxCoalesceChanges
            /\ StartAddPendingChange(t, type, ChangedStation(type, sid), ts)
    \/ \E t \in TaskIds, userId \in Users :
            /\ ~DrainInFlight
            /\ StartProcessPendingChanges(t, userId)
    \/ \E t \in TaskIds : DrainQueueStep(t)

SpecCoalesce == Init /\ [][CoalesceNext]_vars

(***************************************************************************)
(* Stations added and edited while offline: addPendingChange calls that    *)
(* may overlap, the first ones while the queue is not loaded yet.          *)
(***************************************************************************)

\* Bound: PendingChange objects created in one run of overlapping calls.
MaxOverlapChanges == 2

\* The changes that leave an entry for their station in the queue.
Upserts == {"add", "update"}

OverlapNext ==
    \/ \E t \in TaskIds, type \in Upserts, sid \in StationIds, ts \in ClockReadings :
            /\ nextChangeId <= MaxOverlapChanges
            /\ StartAddPendingChange(t, type, ChangedStation(type, sid), ts)
    \/ \E t \in TaskIds, ok \in Succeeds : LoadPendingChangesGetItem(t, ok)
    \/ \E t \in TaskIds, written \in Succeeds : AddPendingChangeLoaded(t, written)
    \/ \E t \in TaskIds : SavePendingChangesSetItem(t)

SpecOverlap == Init /\ [][OverlapNext]_vars

(***************************************************************************)
(* Live edits with the network listener: syncStationChange calls one at a  *)
(* time, NetInfo states at any moment, and the drain that a restoration    *)
(* starts; no callback is registered.                                      *)
(***************************************************************************)

\* Bound: PendingChange objects created in one run of live edits and drains.
MaxOrderChanges == 2

OrderStep(t) ==
    \/ LiveStep(t)
    \/ \E written \in Succeeds : RemovePendingChangeLoaded(t, written)
    \/ ProcessPendingChangesLoaded(t)
    \/ ProcessPendingChangesPushed(t)
    \/ ProcessPendingChangesNetworkError(t)
    \/ ProcessPendingChangesOtherError(t)
    \/ ProcessPendingChangesRemoved(t)
    \/ HasPendingChangesLoaded(t)
    \/ HandleNetworkChangePending(t)
    \/ HandleNetworkChangeNoPending(t)
    \/ HandleNetworkChangeDrained(t)
    \/ HandleNetworkChangeCatch(t)

OrderNext ==
    \/ \E userId \in Users :
            /\ currentUserId = NoUser
            /\ StartNetworkListener(1, userId, FALSE)
    \/ \E type \in ChangeTypes, sid \in StationIds, ts \in ClockReadings :
            /\ currentUserId # NoUser
            /\ nextChangeId <= MaxOrderChanges
            /\ StartSyncStationChange(1, type, ChangedStation(type, sid), ts,
                                      currentUserId)
    \/ \E isConnected \in IsConnectedValues : StartHandleNetworkChange(1, isConnected)
    \/ OrderStep(1)

SpecOrder == Init /\ [][OrderNext]_vars

(***************************************************************************)
(* Two accounts on one device: a user signs in, edits stations while       *)
(* offline, signs out, and another user signs in and synchronises.         *)
(***************************************************************************)

\* Bound: PendingChange objects created while the first user is signed in.
MaxAccountChanges == 1

\* The user who makes the edits.
FirstUser == "u1"

AccountStep(t) ==
    \/ OrderStep(t)
    \/ ProcessPendingChangesEmpty(t)
    \/ SyncStep(t)

AccountNext ==
    \/ \E userId \in DeviceUsers :
            /\ currentUserId = NoUser
            /\ StartNetworkListener(1, userId, FALSE)
    \/ \E localStations \in LocalLists :
            /\ currentUserId # NoUser
            /\ StartSyncStations(1, localStations, currentUserId)
    \/ \E type \in ChangeTypes, sid \in StationIds, ts \in ClockReadings :
            /\ currentUserId = FirstUser
            /\ nextChangeId <= MaxAccountChanges
            /\ StartSyncStationChange(1, type, ChangedStation(type, sid), ts,
                                      currentUserId)
    \/ \E isConnected \in IsConnectedValues : StartHandleNetworkChange(1, isConnected)
    \/ (\A t \in TaskIds : ~Running(t)) /\ HandleSignOut
    \/ AccountStep(1)

SpecAccounts == Init /\ [][AccountNext]_vars

(***************************************************************************)
(* The app with performSync as the restoration callback: the user signs    *)
(* in, performSync runs when nothing else synchronises (sign-in, stations  *)
(* loaded, retry), a change is queued while offline, and NetInfo reports   *)
(* network states at any moment.                                           *)
(***************************************************************************)

\* Bound: PendingChange objects created in one run of the app.
MaxResyncChanges == 1

\* Call t is inside syncStations.
InSyncStations(t) ==
    \E i \in 1..Len(tasks[t].stack) : tasks[t].stack[i].fn = "syncStations"

ResyncStep(t) ==
    \/ \E isConnected \in IsConnectedValues : NetInfoFetched(t, isConnected)
    \/ DrainQueueStep(t)
    \/ SyncStep(t)
    \/ HasPendingChangesLoaded(t)
    \/ HandleNetworkChangePending(t)
    \/ HandleNetworkChangeNoPending(t)
    \/ \E localStations \in LocalLists :
            HandleNetworkChangeDrainedPerformSync(t, localStations)
    \/ PerformSyncSynced(t)
    \/ HandleNetworkChangeCalled(t)
    \/ HandleNetworkChangeCatch(t)

ResyncNext ==
    \/ \E t \in TaskIds, userId \in Users :
            /\ currentUserId = NoUser
            /\ StartNetworkListener(t, userId, TRUE)
    \/ \E t \in TaskIds, localStations \in LocalLists :
            /\ currentUserId # NoUser
            /\ \A other \in TaskIds : ~InSyncStations(other)
            /\ StartSyncStations(t, localStations, currentUserId)
    \/ \E t \in TaskIds, type \in ChangeTypes, sid \in StationIds, ts \in ClockReadings :
            /\ currentUserId # NoUser
            /\ ~isOnline
            /\ nextChangeId <= MaxResyncChanges
            /\ StartAddPendingChange(t, type, ChangedStation(type, sid), ts)
    \/ \E t \in TaskIds, isConnected \in IsConnectedValues :
            StartHandleNetworkChange(t, isConnected)
    \/ \E t \in TaskIds : ResyncStep(t)

SpecResync == Init /\ [][ResyncNext]_vars

\* Bound: PendingChange objects created in one run with the network listener.
MaxNetworkChanges == 2

\* The next step of the call in slot t: addPendingChange, and the drain that
\* handleNetworkChange starts (with a queue that hasPendingChanges found
\* non-empty in the same turn of the job queue).
DrainStep(t) ==
    \/ \E ok \in Succeeds : LoadPendingChangesGetItem(t, ok)
    \/ \E written \in Succeeds : AddPendingChangeLoaded(t, written)
    \/ \E written \in Succeeds : RemovePendingChangeLoaded(t, written)
    \/ SavePendingChangesSetItem(t)
    \/ ProcessPendingChangesLoaded(t)
    \/ ProcessPendingChangesPushed(t)
    \/ ProcessPendingChangesNetworkError(t)
    \/ ProcessPendingChangesOtherError(t)
    \/ ProcessPendingChangesRemoved(t)
    \/ \E failures \in Failures : PushStationChangeOk(t, failures)
    \/ \E kind \in ErrorKinds : PushStationChangeFail(t, kind)

\* The next step of the call in slot t: handleNetworkChange and what it calls.
NetworkStep(t) ==
    \/ \E isConnected \in IsConnectedValues : NetInfoFetched(t, isConnected)
    \/ HasPendingChangesLoaded(t)
    \/ HandleNetworkChangePending(t)
    \/ HandleNetworkChangeNoPending(t)
    \/ HandleNetworkChangeDrained(t)
    \/ OnNetworkRestoredResolved(t)
    \/ \E kind \in ErrorKinds : OnNetworkRestoredRejected(t, kind)
    \/ HandleNetworkChangeCalled(t)
    \/ HandleNetworkChangeCatch(t)

\* The network listener: the user signs in (startNetworkListener), changes
\* are queued, NetInfo reports network states at any moment, and the
\* handlers run; the user stays signed in.
NetworkNext ==
    \/ \E t \in TaskIds, userId \in Users, callback \in BOOLEAN :
            StartNetworkListener(t, userId, callback)
    \/ \E t \in TaskIds, type \in ChangeTypes, sid \in StationIds, ts \in ClockReadings :
            /\ nextChangeId <= MaxNetworkChanges
            /\ StartAddPendingChange(t, type, ChangedStation(type, sid), ts)
    \/ \E t \in TaskIds, isConnected \in IsConnectedValues :
            StartHandleNetworkChange(t, isConnected)
    \/ \E t \in TaskIds : DrainStep(t)
    \/ \E t \in TaskIds : NetworkStep(t)

SpecNetwork == Init /\ [][NetworkNext]_vars

----------------------------------------------------------------------------
(* Properties of the serializer (checked under SpecSerializer)             *)

\* C6: for every valid station list x, deserialize(serialize(x)) is not an
\* error and is a list of the same length and order as x whose elements
\* have the same id, name and url.
C6_SerializeRoundTrip ==
    (result.done /\ json.from = "serialize") =>
        /\ ~isDeserializeError(result.val)
        /\ IsArray(result.val)
        /\ Len(result.val.items) = Len(stations)
        /\ \A i \in 1..Len(stations) :
              /\ result.val.items[i].id = stations[i].id
              /\ result.val.items[i].name = stations[i].name
              /\ result.val.items[i].url = stations[i].url

\* C6 witness: a round trip of two different stations whose fields hold
\* characters that are escaped in the text.
C6_Witness ==
    /\ result.done
    /\ json.from = "serialize"
    /\ Len(stations) = 2
    /\ stations[1] # stations[2]
    /\ stations[1].name = <<"\\", "\n", ",">>
    /\ stations[2].url = <<"a", "\"">>
    /\ stations[2].id = <<>>
    /\ IsArray(result.val)

\* An element of a parsed array that is no station: not an object, or
\* without a string id, name or url.
NotAStation(e) ==
    \/ e.t # "object"
    \/ \E k \in {KeyId, KeyName, KeyUrl} :
          \/ LastField(e, k) = 0
          \/ e.fields[LastField(e, k)].val.t # "string"

\* The inputs C7 is about: not parseable, or not an array, or an array with
\* an element that is no station.
InvalidInput(text) ==
    LET p == JSONparse(text)
    IN  \/ ~p.ok
        \/ p.v.t # "array"
        \/ \E i \in 1..Len(p.v.items) : NotAStation(p.v.items[i])

\* C7: deserialize never throws, and for every input that is not parseable,
\* or parses to a non-array, or to an array with an element that is not an
\* object or lacks a string id, name or url, it returns an error object with
\* a non-empty error string instead of a station list.
C7_DeserializeReturnsError ==
    result.done =>
        /\ result.val.t # "throw"
        /\ InvalidInput(json.text) =>
              /\ isDeserializeError(result.val)
              /\ MessageNonEmpty(result.val.error)

\* C7 witness: a parseable array whose first element is a station and whose
\* second element lacks a string field, answered by an error object.
C7_Witness ==
    /\ result.done
    /\ json.from = "input"
    /\ JSONparse(json.text).ok
    /\ JSONparse(json.text).v.t = "array"
    /\ Len(JSONparse(json.text).v.items) = 2
    /\ ~NotAStation(JSONparse(json.text).v.items[1])
    /\ JSONparse(json.text).v.items[2].t = "object"
    /\ NotAStation(JSONparse(json.text).v.items[2])
    /\ isDeserializeError(result.val)

----------------------------------------------------------------------------
(* Properties of mergeStations (checked under SpecMerge)                   *)

\* The URL key the properties compare by: lower-cased, then trimmed.
UrlKey(station) == trim(toLowerCase(station.url))

UrlKeys(list) == {UrlKey(list[i]) : i \in 1..Len(list)}

\* C3: for all station lists local and cloud, mergeStations(local, cloud)
\* has no two stations whose URLs are equal after lower-casing and trimming.
C3_MergeNoDuplicateUrls ==
    merged.done =>
        \A i, j \in 1..Len(merged.val) :
            UrlKey(merged.val[i]) = UrlKey(merged.val[j]) => i = j

\* C3 witness: a merge that had a collision to remove, between two URLs
\* spelled differently.
C3_Witness ==
    /\ merged.done
    /\ \E i \in 1..Len(local), j \in 1..Len(cloud) :
          /\ UrlKey(local[i]) = UrlKey(cloud[j])
          /\ local[i].url # cloud[j].url
    /\ Len(merged.val) < Len(local) + Len(cloud)

\* C4: the set of normalized URLs of mergeStations(local, cloud) is the
\* union of the normalized URLs of local and of cloud.
C4_MergeUrlSetIsUnion ==
    merged.done => UrlKeys(merged.val) = UrlKeys(local) \cup UrlKeys(cloud)

\* C4 witness: a merge of lists that each hold a URL the other lacks.
C4_Witness ==
    /\ merged.done
    /\ UrlKeys(local) \ UrlKeys(cloud) # {}
    /\ UrlKeys(cloud) \ UrlKeys(local) # {}
    /\ Len(merged.val) = 2

\* The entry of the merge result for a URL key (the result holds one).
MergedEntry(k) ==
    CHOOSE s \in {merged.val[i] : i \in 1..Len(merged.val)} : UrlKey(s) = k

HasMergedEntry(k) == \E i \in 1..Len(merged.val) : UrlKey(merged.val[i]) = k

\* C5 as claimed: for EVERY station sa of local and sb of cloud with equal
\* normalized URL, the merged entry for that URL equals sa.
C5_Original_EntryEqualsEveryLocal ==
    merged.done =>
        \A i \in 1..Len(local), j \in 1..Len(cloud) :
            UrlKey(local[i]) = UrlKey(cloud[j]) =>
                /\ HasMergedEntry(UrlKey(local[i]))
                /\ MergedEntry(UrlKey(local[i])) = local[i]

\* The last station of `list` with URL key k.
LastWithKey(list, k) ==
    list[CHOOSE i \in 1..Len(list) :
            /\ UrlKey(list[i]) = k
            /\ \A j \in (i + 1)..Len(list) : UrlKey(list[j]) # k]

\* C5 (amended): for every cloud station whose normalized URL also occurs in
\* local, the merged entry for that URL is the LAST station of local with
\* that normalized URL: a local id and name, never the cloud station's.
C5_MergeLocalPriority ==
    merged.done =>
        \A j \in 1..Len(cloud) :
            UrlKey(cloud[j]) \in UrlKeys(local) =>
                /\ HasMergedEntry(UrlKey(cloud[j]))
                /\ MergedEntry(UrlKey(cloud[j])) = LastWithKey(local, UrlKey(cloud[j]))

\* C5 witness: a collision between a local and a cloud station that differ
\* in id and in name.
C5_Witness ==
    /\ merged.done
    /\ \E i \in 1..Len(local), j \in 1..Len(cloud) :
          /\ UrlKey(local[i]) = UrlKey(cloud[j])
          /\ local[i].id # cloud[j].id
          /\ local[i].name # cloud[j].name
          /\ MergedEntry(UrlKey(cloud[j])) = local[i]

----------------------------------------------------------------------------
(* Properties of the pending-change queue                                  *)

\* No two entries of the list are for the same station.id.
OnePerStation(changes) ==
    \A i, j \in 1..Len(changes) :
        changes[i].station.id = changes[j].station.id => i = j

\* C1: starting from an empty queue, after any sequence and interleaving of
\* addPendingChange, removePendingChange, clearPendingChanges,
\* processPendingChanges and pushChange, the queue holds at most one entry
\* per station.id: the cached array, every array a call still holds, and
\* the stored item.
C1_OneEntryPerStation ==
    /\ \A a \in ArrIds : OnePerStation(heap[a])
    /\ storage.present => OnePerStation(storage.val)

\* Two changes for one station were enqueued by calls that overlapped, and
\* the queue holds one entry, the later one.
C1_Witness ==
    /\ pendingChangesCache # NULL
    /\ Len(heap[pendingChangesCache]) = 1
    /\ heap[pendingChangesCache][1].id = 2
    /\ \A t \in TaskIds :
            /\ Running(t)
            /\ Top(tasks[t]).fn = "addPendingChange"
            /\ Top(tasks[t]).pc = "setItem"
    /\ \E t \in TaskIds : Top(tasks[t]).existing.id = 1

\* The queue as the module sees it: the cached array.
Queue == heap[pendingChangesCache]
QueueAfter == heap'[pendingChangesCache']

\* The entries of the list for station ids other than sid, in order.
OtherEntries(changes, sid) ==
    LET Other(c) == c.station.id # sid IN SelectSeq(changes, Other)
EntriesFor(changes, sid) ==
    LET Same(c) == c.station.id = sid IN SelectSeq(changes, Same)

HoldsAdd(changes, sid) ==
    \E i \in 1..Len(changes) : changes[i].station.id = sid /\ changes[i].type = "add"

\* Call t is addPendingChange(change) with a change of this type, at the
\* step from findIndex to savePendingChanges, and the queue holds an add
\* for the station of the change.
EnqueuesOntoAdd(t, type) ==
    /\ At(t, "addPendingChange", "loaded")
    /\ Top(tasks[t]).change.type = type
    /\ pendingChangesCache # NULL
    /\ HoldsAdd(Queue, Top(tasks[t]).change.station.id)
    /\ Running(t)'
    /\ Top(tasks[t])'.pc = "setItem"

\* C8: if the queue holds an add for station id s, enqueueing a delete for
\* s leaves no entry for s in the queue and every entry for other station
\* ids unchanged.
C8_AddThenDeleteCancels ==
    [][\A t \in TaskIds :
          EnqueuesOntoAdd(t, "delete") =>
              LET s == Top(tasks[t]).change.station.id
              IN  /\ EntriesFor(QueueAfter, s) = <<>>
                  /\ OtherEntries(QueueAfter, s) = OtherEntries(Queue, s)]_vars

\* A delete has just cancelled the add of its station, and the queue keeps
\* the entry of the other station.
C8_Witness ==
    \E t \in TaskIds :
        /\ Running(t)
        /\ Top(tasks[t]).fn = "addPendingChange"
        /\ Top(tasks[t]).pc = "setItem"
        /\ Top(tasks[t]).change.type = "delete"
        /\ Top(tasks[t]).existing.type = "add"
        /\ pendingChangesCache # NULL
        /\ Len(Queue) = 1
        /\ Queue[1].station.id # Top(tasks[t]).change.station.id

\* C9: if the queue holds an add for station id s, enqueueing an update for
\* s leaves exactly one entry for s, of type add, whose station payload is
\* the update's payload.
C9_AddThenUpdateStaysAdd ==
    [][\A t \in TaskIds :
          EnqueuesOntoAdd(t, "update") =>
              LET s == Top(tasks[t]).change.station.id
                  entries == EntriesFor(QueueAfter, s)
              IN  /\ Len(entries) = 1
                  /\ entries[1].type = "add"
                  /\ entries[1].station = Top(tasks[t]).change.station]_vars

\* An update has just been merged into the add of its station, whose
\* payload was another one, next to the entry of the other station.
C9_Witness ==
    \E t \in TaskIds :
        /\ Running(t)
        /\ Top(tasks[t]).fn = "addPendingChange"
        /\ Top(tasks[t]).pc = "setItem"
        /\ Top(tasks[t]).change.type = "update"
        /\ Top(tasks[t]).existing.type = "add"
        /\ Top(tasks[t]).existing.station # Top(tasks[t]).change.station
        /\ pendingChangesCache # NULL
        /\ Len(Queue) = 2
        /\ HoldsAdd(Queue, Top(tasks[t]).change.station.id)

----------------------------------------------------------------------------
(* Properties of syncStations (checked under SpecSync)                     *)

\* A syncStations call has just returned.
SyncReturned == returned.op = "syncStations"

\* C2: every syncStations call returns, and at the moment it returns
\* SyncState is not 'syncing': it is 'synced' when the result has success =
\* true, 'offline' when the call failed on a network-classified error, and
\* 'error' when it failed on any other error.
C2_SyncReturnsInFinalState ==
    /\ [](SyncReturned =>
            /\ currentSyncState # "syncing"
            /\ returned.outcome.kind = "ok"
            /\ currentSyncState =
                    IF returned.outcome.flag THEN "synced"
                    ELSE IF isNetworkError(returned.outcome.error) THEN "offline"
                    ELSE "error")
    /\ \A t \in TaskIds :
            (tasks[t].op = "syncStations") ~> (~Running(t) /\ SyncReturned)

\* A syncStations call that pushed pending changes has just returned after a
\* network-classified failure of uploadStations, in state 'offline'.
C2_Witness ==
    /\ SyncReturned
    /\ ~returned.outcome.flag
    /\ returned.outcome.error = "net"
    /\ returned.uploads # <<>>
    /\ currentSyncState = "offline"

\* C10: when syncStations runs with a non-empty local list and
\* downloadStations returns an empty list, and no remote call fails, it
\* calls uploadStations with exactly the local list (once), returns success
\* with mergedStations equal to the local list, and ends in state 'synced'.
C10_FirstSyncUploadsLocal ==
    (/\ SyncReturned
     /\ Len(returned.input.list) > 0
     /\ returned.cloud = [done |-> TRUE, list |-> <<>>]
     /\ ~returned.failed)
    => /\ returned.uploads = <<returned.input.list>>
       /\ returned.outcome.kind = "ok"
       /\ returned.outcome.flag
       /\ returned.outcome.list = returned.input.list
       /\ currentSyncState = "synced"

\* A first-time sync of two local stations has just returned successfully,
\* and the remote collection holds the two stations.
C10_Witness ==
    /\ SyncReturned
    /\ Len(returned.input.list) = 2
    /\ returned.cloud = [done |-> TRUE, list |-> <<>>]
    /\ ~returned.failed
    /\ returned.uploads = <<returned.input.list>>
    /\ returned.outcome.flag
    /\ currentSyncState = "synced"
    /\ \A u \in Users : DownloadedStations(u) = returned.input.list

\* C11: when syncStations runs with an empty local list and the download
\* succeeds, it makes no uploadStations call and returns success with
\* mergedStations equal to the downloaded cloud list (the empty list when the
\* cloud is empty), and ends in state 'synced'.
C11_EmptyLocalAdoptsCloud ==
    (/\ SyncReturned
     /\ returned.input.list = <<>>
     /\ returned.cloud.done)
    => /\ returned.uploads = <<>>
       /\ returned.outcome.kind = "ok"
       /\ returned.outcome.flag
       /\ returned.outcome.list = returned.cloud.list
       /\ currentSyncState = "synced"

\* A sync with no local station has just returned the stations that were in
\* the cloud, and the remote collection is as it was downloaded.
C11_Witness ==
    /\ SyncReturned
    /\ returned.input.list = <<>>
    /\ returned.cloud.done
    /\ returned.cloud.list # <<>>
    /\ returned.outcome.list = returned.cloud.list
    /\ returned.uploads = <<>>
    /\ \A u \in Users : DownloadedStations(u) = returned.cloud.list

----------------------------------------------------------------------------
(* Properties of syncStations and pushChange, one call at a time (checked  *)
(* under SpecSerial)                                                       *)

\* The stations of a list, as a set.
StationSet(list) == {list[i] : i \in 1..Len(list)}

\* C12: when syncStations succeeds with local and cloud both non-empty,
\* mergedStations equals mergeStations(local, cloud), and afterwards the
\* user's remote collection reflects exactly that list: downloadStations
\* would return the same set of stations as mergedStations.
C12_Original_RemoteReflectsMerged ==
    (/\ SyncReturned
     /\ returned.outcome.flag
     /\ Len(returned.input.list) > 0
     /\ returned.cloud.done
     /\ Len(returned.cloud.list) > 0)
    => /\ returned.outcome.list = mergeStations(returned.input.list, returned.cloud.list)
       /\ StationSet(DownloadedStations(returned.input.userId))
                = StationSet(returned.outcome.list)

\* The queue is the same before and after the step.
QueueUnchanged ==
    IF pendingChangesCache = NULL THEN pendingChangesCache' = NULL
    ELSE pendingChangesCache' # NULL /\ QueueAfter = Queue

\* syncStations of call t resumes after the call it awaited at one of these
\* places was rejected with an error of this kind.
SyncStepFailed(t, pcs, kind) ==
    /\ Running(t)
    /\ Top(tasks[t]).fn = "syncStations"
    /\ Top(tasks[t]).pc \in pcs
    /\ tasks[t].ret.kind = kind

\* The call in slot t returns from syncStations in this step, with a failure
\* result that carries the input list and this class of error.
SyncFailsWith(t, kind) ==
    /\ ~Running(t)'
    /\ returned'.op = "syncStations"
    /\ returned'.outcome.kind = "ok"
    /\ ~returned'.outcome.flag
    /\ returned'.outcome.error = kind
    /\ returned'.outcome.list = tasks[t].input.list

\* C13: if the queue drain or the download inside syncStations fails with a
\* network-classified error, syncStations makes no further remote call, sets
\* state 'offline' and returns success = false with mergedStations equal to
\* the input list; no queued change is discarded: the change whose push
\* failed and the ones after it are still queued.
C13_NetworkFailureGoesOffline ==
    [][\A t \in TaskIds :
          /\ SyncStepFailed(t, {"awaitProcess", "awaitDownload"}, "net") =>
                /\ SyncFailsWith(t, "net")
                /\ returned'.uploads = <<>>
                /\ currentSyncState' = "offline"
                /\ remote' = remote
                /\ storage' = storage
                /\ QueueUnchanged
          /\ (/\ tasks[t].op = "syncStations"
              /\ Resumed(t, "processPendingChanges", "awaitPush")
              /\ isNetworkError(tasks[t].ret.kind)) =>
                /\ QueueUnchanged
                /\ storage' = storage
                /\ \A i \in 1..Len(Top(tasks[t]).sorted) :
                        \E j \in 1..Len(QueueAfter) :
                            QueueAfter[j] = Top(tasks[t]).sorted[i]]_vars

\* A sync of a non-empty list has just returned offline after the push of the
\* first queued change failed on the network; both queued changes are kept.
C13_Witness ==
    /\ SyncReturned
    /\ ~returned.outcome.flag
    /\ returned.outcome.error = "net"
    /\ returned.outcome.list = returned.input.list
    /\ returned.input.list # <<>>
    /\ ~returned.cloud.done
    /\ currentSyncState = "offline"
    /\ pendingChangesCache # NULL
    /\ Len(Queue) = 2
    /\ storage = [present |-> TRUE, val |-> Queue]

----------------------------------------------------------------------------
(* Properties of withRetry (checked under SpecRetry)                       *)

\* The invocations of operation() that rejected, so far.
FailedCalls == {i \in 1..Len(retry.calls) : ~retry.calls[i].ok}

\* C16 as stated: with the default configuration withRetry invokes the
\* operation at most 3 times in total before giving up with the last error.
C16_Original_AtMostThreeCalls ==
    /\ Len(retry.calls) <= 3
    /\ retry.pc = "thrown" => retry.value = retry.calls[Len(retry.calls)].val

\* C16: with the default configuration (maxRetries = 3) withRetry invokes
\* the operation at most maxRetries + 1 = 4 times in total; it gives up
\* only after the 4th invocation has failed, with that invocation's error.
C16_AtMostFourCalls ==
    /\ Len(retry.calls) <= MaxRetries + 1
    /\ retry.pc = "thrown" =>
            /\ Len(retry.calls) = MaxRetries + 1
            /\ FailedCalls = 1..Len(retry.calls)
            /\ retry.value = retry.calls[Len(retry.calls)].val

\* withRetry has given up after four failed invocations, the last of which
\* failed with another error than the ones before.
C16_Witness ==
    /\ retry.pc = "thrown"
    /\ Len(retry.calls) = 4
    /\ retry.calls[3].val = "e1"
    /\ retry.calls[4].val = "e2"
    /\ retry.value = "e2"

\* C17: withRetry returns the result of the first successful attempt and
\* makes no attempt after it; after the failed attempt with index k (from 0)
\* that is not the last it sleeps baseDelay * 2^k before the next attempt;
\* after the last failed attempt it raises that attempt's error without
\* sleeping.
C17_BackoffAndResult ==
    /\ \A i \in 1..Len(retry.calls) : retry.calls[i].ok => i = Len(retry.calls)
    /\ \A i \in 1..Len(retry.sleeps) : retry.sleeps[i] = retry.baseDelay * 2^(i - 1)
    /\ retry.pc = "operation" =>
            /\ FailedCalls = 1..Len(retry.calls)
            /\ Len(retry.sleeps) = Len(retry.calls)
    /\ retry.pc = "sleep" =>
            /\ FailedCalls = 1..Len(retry.calls)
            /\ Len(retry.calls) <= retry.maxRetries
            /\ Len(retry.sleeps) = Len(retry.calls)
    /\ retry.pc = "returned" =>
            /\ retry.calls[Len(retry.calls)] = [ok |-> TRUE, val |-> retry.value]
            /\ Len(retry.sleeps) = Len(retry.calls) - 1
    /\ retry.pc = "thrown" =>
            /\ FailedCalls = 1..Len(retry.calls)
            /\ Len(retry.calls) = retry.maxRetries + 1
            /\ Len(retry.sleeps) = retry.maxRetries
            /\ retry.value = retry.calls[Len(retry.calls)].val

\* withRetry has returned the value of its third attempt, after sleeping
\* 1000 ms and 2000 ms.
C17_Witness ==
    /\ retry.pc = "returned"
    /\ Len(retry.calls) = 3
    /\ retry.sleeps = <<1000, 2000>>
    /\ retry.value = "v2"

----------------------------------------------------------------------------
(* Properties of uploadStations next to pushChange (checked under          *)
(* SpecUpload)                                                             *)

\* C18: after uploadStations(userId, stations) completes successfully the
\* user's remote collection equals exactly `stations`, and if it fails the
\* collection is still the previous full set, never a mix, under every
\* interleaving with pushStationChange calls for the same user, including
\* one that lands between the read of the existing documents and the commit.
C18_Original_UploadReplacesCollection ==
    [][\A t \in TaskIds :
          (/\ tasks[t].op = "uploadStations"
           /\ Running(t)
           /\ ~Running(t)') =>
              IF returned'.outcome.kind = "ok"
              THEN \A u \in Users :
                        u = tasks[t].input.userId =>
                            StationSet(DownloadedStations(u))'
                                = StationSet(tasks[t].input.list)
              ELSE remote' = remote]_vars

----------------------------------------------------------------------------
(* pushChange while a syncStations call is in flight (checked under        *)
(* SpecSync)                                                               *)

\* The user's remote collection shows the change: the document written by an
\* add, the fields written by an update, no document after a delete.
Reflected(userId, change) ==
    LET doc == remote[userId][change.station.id]
    IN  CASE change.type = "add" -> doc = change.station
          [] change.type = "update" ->
                /\ doc.name = change.station.name
                /\ doc.url = change.station.url
          [] change.type = "delete" -> doc = NoStation

\* The change is in the pending-change queue: in the cached array or in the
\* stored one.
StillQueued(change) ==
    LET Holds(changes) == \E i \in 1..Len(changes) : changes[i].id = change.id
    IN  \/ pendingChangesCache # NULL /\ Holds(Queue)
        \/ storage.present /\ Holds(storage.val)

\* C19: when a syncStations call returns, every change that a pushChange
\* call wrote to the remote collection while the sync was in flight is still
\* shown by the remote collection, and every change that a pushChange call
\* enqueued while the sync was in flight is still in the queue (or was pushed
\* by the sync's drain and is shown by the remote collection).
C19_Original_ConcurrentChangeSurvives ==
    SyncReturned =>
        \A m \in meanwhile :
            IF m.how = "pushed"
            THEN Reflected(m.userId, m.change)
            ELSE StillQueued(m.change) \/ Reflected(m.userId, m.change)

----------------------------------------------------------------------------
(* handleNetworkChange (checked under SpecNetwork)                         *)

\* s is an initial part of sequence full.
IsPrefix(s, full) == Len(s) <= Len(full) /\ s = SubSeq(full, 1, Len(s))

\* What a handler that found pending changes does when nothing throws, with
\* and without a registered callback.
RestoreSteps(callback) ==
    <<"syncing", "drain", "drained">>
        \o (IF callback THEN <<"callback", "called">> ELSE <<>>)
        \o <<"synced">>

\* The log of a handler on the restore branch: an initial part of
\* RestoreSteps, or one cut short with 'error' by a drain or a callback that
\* threw.
InRestoreOrder(log) ==
    \E callback \in BOOLEAN :
        \/ IsPrefix(log, RestoreSteps(callback))
        \/ /\ log # <<>>
           /\ log[Len(log)] = "error"
           /\ log[Len(log) - 1] \in {"drain", "callback"}
           /\ IsPrefix(SubSeq(log, 1, Len(log) - 1), RestoreSteps(callback))

\* The calls of handleNetworkChange: the ones in flight and the one that has
\* just returned.
HandlerCalls ==
    {k \in {tasks[t] : t \in TaskIds} \cup {returned} : k.op = "handleNetworkChange"}

\* A frame of the call is a Firestore request or the callback.
MakesRemoteCall(k) ==
    \E i \in 1..Len(k.stack) :
        k.stack[i].fn \in {"pushStationChange", "downloadStations", "uploadStations",
                           "onNetworkRestored"}

\* C20: a handler that found the queue non-empty on a disconnected ->
\* connected transition with an active user sets 'syncing', then drains the
\* queue, then calls the callback if (and only if) one is registered, and
\* sets 'synced' only after the drain and the callback have returned; a
\* handler that found the queue empty makes no remote call, returns at once
\* and sets 'idle' exactly when the state was 'offline' (otherwise it leaves
\* the state alone).
C20_RestoreInOrder ==
    /\ [](\A k \in HandlerCalls :
            /\ k.log # <<>> /\ k.log[1] = "syncing" => InRestoreOrder(k.log)
            /\ MakesRemoteCall(k) =>
                    k.log \in {<<"syncing", "drain">>,
                               <<"syncing", "drain", "drained", "callback">>})
    /\ [][\A t \in TaskIds :
            /\ (Resumed(t, "handleNetworkChange", "awaitHasPending") /\ tasks[t].ret.flag) =>
                    /\ currentSyncState' = "syncing"
                    /\ \A k \in {tasks[t]} : tasks'[t].log = k.log \o <<"syncing", "drain">>
                    /\ Top(tasks'[t]).fn \in {"processPendingChanges", "pushStationChange"}
            /\ (Resumed(t, "handleNetworkChange", "awaitHasPending") /\ ~tasks[t].ret.flag) =>
                    /\ ~Running(t)'
                    /\ returned'.op = "handleNetworkChange"
                    /\ returned'.log \in {<<>>, <<"idle">>}
                    /\ remote' = remote
                    /\ currentSyncState' =
                            IF currentSyncState = "offline" THEN "idle" ELSE currentSyncState
            /\ (Resumed(t, "handleNetworkChange", "awaitProcess") /\ tasks[t].ret.kind = "ok") =>
                    IF onNetworkRestoredCallback
                    THEN /\ Top(tasks'[t]).fn = "onNetworkRestored"
                         /\ currentSyncState' = currentSyncState
                    ELSE /\ ~Running(t)'
                         /\ currentSyncState' = "synced"
                         /\ returned'.log = RestoreSteps(FALSE)
            /\ (Resumed(t, "handleNetworkChange", "awaitCallback") /\ tasks[t].ret.kind = "ok") =>
                    /\ ~Running(t)'
                    /\ currentSyncState' = "synced"
                    /\ returned'.log = RestoreSteps(TRUE)]_vars

\* A handler has just returned after it set 'syncing', pushed a queued change
\* to the remote collection, called the registered callback and set 'synced'.
C20_Witness ==
    /\ returned.op = "handleNetworkChange"
    /\ returned.log = RestoreSteps(TRUE)
    /\ currentSyncState = "synced"
    /\ \E u \in Users, sid \in StationIds : remote[u][sid] # NoStation
    /\ storage = [present |-> TRUE, val |-> <<>>]

----------------------------------------------------------------------------
(* processPendingChanges (checked under SpecDrain)                         *)

\* The frame of processPendingChanges in call k (it is the outermost one).
DrainFrame(k) == k.stack[1]

\* Call t is a drain whose processPendingChanges frame is at pc.
DrainAt(t, pc) ==
    /\ tasks[t].op = "processPendingChanges"
    /\ Running(t)
    /\ DrainFrame(tasks[t]).pc = pc

\* The position of the change in the list.
IndexOf(changes, c) == CHOOSE i \in 1..Len(changes) : changes[i] = c

\* sorted holds the changes of queue in ascending timestamp order, changes
\* with the same timestamp in their queue order.
SortedStably(sorted, queue) ==
    /\ Len(sorted) = Len(queue)
    /\ {sorted[i] : i \in 1..Len(sorted)} = {queue[i] : i \in 1..Len(queue)}
    /\ \A i, j \in 1..Len(sorted) :
            i < j =>
                \/ sorted[i].timestamp < sorted[j].timestamp
                \/ /\ sorted[i].timestamp = sorted[j].timestamp
                   /\ IndexOf(queue, sorted[i]) < IndexOf(queue, sorted[j])

\* C26: a drain hands the queued changes to pushStationChange in ascending
\* timestamp order, changes with equal timestamps in queue order: the list
\* it walks is the queue sorted stably, it attempts the changes of that list
\* one after the other, the next one only when the push before it has
\* settled, and it calls removePendingChange, which takes the change out of
\* the queue, only for the change whose push has just succeeded.
C26_DrainInTimestampOrder ==
    /\ [](\A t \in TaskIds :
            tasks[t].op = "processPendingChanges" =>
                \A i, j \in 1..Len(tasks[t].attempts) :
                    i < j => tasks[t].attempts[i].timestamp
                                <= tasks[t].attempts[j].timestamp)
    /\ [][\A t \in TaskIds :
            /\ (DrainAt(t, "loaded") /\ heap[DrainFrame(tasks[t]).arr] # <<>>) =>
                    /\ SortedStably(DrainFrame(tasks[t])'.sorted,
                                    heap[DrainFrame(tasks[t]).arr])
                    /\ tasks'[t].attempts = <<Head(DrainFrame(tasks[t])'.sorted)>>
            /\ (/\ tasks[t].op = "processPendingChanges"
                /\ tasks'[t].op = "processPendingChanges"
                /\ tasks'[t].attempts # tasks[t].attempts
                /\ tasks[t].attempts # <<>>) =>
                    /\ Len(tasks[t].stack) = 1
                    /\ tasks[t].ret.kind # "none"
                    /\ \A sorted \in {DrainFrame(tasks[t]).sorted} :
                            /\ sorted[1] = tasks[t].attempts[Len(tasks[t].attempts)]
                            /\ tasks'[t].attempts = Append(tasks[t].attempts, sorted[2])
            /\ (/\ tasks[t].op = "processPendingChanges"
                /\ Running(t)'
                /\ Top(tasks'[t]).fn = "removePendingChange"
                /\ Top(tasks[t]).fn # "removePendingChange") =>
                    /\ Resumed(t, "processPendingChanges", "awaitPush")
                    /\ tasks[t].ret.kind = "ok"
                    /\ Top(tasks'[t]).changeId
                            = tasks[t].attempts[Len(tasks[t].attempts)].id
            /\ (/\ tasks[t].op = "processPendingChanges"
                /\ pendingChangesCache # NULL
                /\ pendingChangesCache' # NULL
                /\ QueueAfter # Queue) =>
                    /\ Top(tasks[t]).fn = "removePendingChange"
                    /\ QueueAfter
                         = FilterOut(Queue, tasks[t].attempts[Len(tasks[t].attempts)].id)]_vars

\* A drain is pushing its first change, which is not the first one of the
\* queue: an older change is queued behind a newer one.
C26_Witness ==
    \E t \in TaskIds :
        /\ DrainAt(t, "awaitPush")
        /\ Len(tasks[t].attempts) = 1
        /\ pendingChangesCache # NULL
        /\ Len(Queue) = 2
        /\ Queue[1].timestamp > Queue[2].timestamp
        /\ tasks[t].attempts[1] = Queue[2]

\* C27: when a push of a drain fails with a network-classified error, the
\* drain ends in that step: the error is thrown to its caller, no further
\* change is handed to pushStationChange, and the queue and the stored item
\* are as they were, with the change whose push failed and every change
\* that was to follow it still queued.
C27_NetworkErrorStopsDrain ==
    [][\A t \in TaskIds :
          (/\ DrainAt(t, "awaitPush")
           /\ Resumed(t, "processPendingChanges", "awaitPush")
           /\ tasks[t].ret.kind = "net") =>
                /\ ~Running(t)'
                /\ returned'.op = "processPendingChanges"
                /\ returned'.outcome.kind = tasks[t].ret.kind
                /\ returned'.attempts = tasks[t].attempts
                /\ QueueUnchanged
                /\ storage' = storage
                /\ remote' = remote
                /\ \A i \in 1..Len(DrainFrame(tasks[t]).sorted) :
                        \E j \in 1..Len(QueueAfter) :
                            QueueAfter[j] = DrainFrame(tasks[t]).sorted[i]]_vars

\* A drain of three changes has just thrown a network error: the first
\* change was pushed and removed, the push of the second failed, and the
\* third was not attempted; the second and the third are queued and stored.
C27_Witness ==
    /\ returned.op = "processPendingChanges"
    /\ returned.outcome.kind = "net"
    /\ Len(returned.attempts) = 2
    /\ pendingChangesCache # NULL
    /\ Len(Queue) = 2
    /\ Queue[1] = returned.attempts[2]
    /\ storage = [present |-> TRUE, val |-> Queue]

\* C28: when a drain has finished without throwing, none of the changes it
\* handed to pushStationChange is in the queue any more: the ones whose push
\* succeeded were removed, and the ones whose push failed with an error that
\* is not network-classified were skipped and dropped.
C28_Original_FailedEntryDropped ==
    (/\ returned.op = "processPendingChanges"
     /\ returned.outcome.kind = "ok"
     /\ pendingChangesCache # NULL) =>
        \A i \in 1..Len(returned.attempts) :
            \A j \in 1..Len(Queue) : Queue[j].id # returned.attempts[i].id

----------------------------------------------------------------------------
(* Connectivity restoration (checked under SpecNetwork)                    *)

\* C29: when the drain that syncStations or handleNetworkChange awaited has
\* thrown a network-classified error, the caller sets SyncState 'offline'
\* and leaves the queue and the stored item as they are.
C29_Original_DrainNetworkErrorGoesOffline ==
    [][\A t \in TaskIds :
          (/\ Running(t)
           /\ Top(tasks[t]).fn \in {"syncStations", "handleNetworkChange"}
           /\ Top(tasks[t]).pc = "awaitProcess"
           /\ tasks[t].ret.kind = "net") =>
                /\ currentSyncState' = "offline"
                /\ QueueUnchanged
                /\ storage' = storage]_vars

\* C21: a handler that ran on a disconnected -> connected transition with a
\* signed-in user and a registered full-sync callback (performSync) does not
\* end without having called the callback, whether or not it found pending
\* changes, unless the drain before it threw.
C21_Original_RestorationRunsFullSync ==
    [][\A t \in TaskIds :
          (/\ tasks[t].op = "handleNetworkChange"
           /\ Running(t)
           /\ ~Running(t)'
           /\ onNetworkRestoredCallback) =>
                \E i \in 1..Len(returned'.log) :
                    returned'.log[i] \in {"callback", "error"}]_vars

----------------------------------------------------------------------------
(* Self-healing (checked under SpecHeal)                                   *)

\* A change is in the pending queue.
ChangePending == pendingChangesCache # NULL /\ Queue # <<>>

\* C22: whenever a change is in the pending queue or SyncState is
\* 'offline', eventually the queue is empty and SyncState is not 'offline'
\* (the user stays signed in and from some point on every remote call
\* succeeds; there is no new sign-in, restart or manual retry).
C22_Original_OfflineSelfHeals ==
    (ChangePending \/ currentSyncState = "offline")
        ~> (~ChangePending /\ currentSyncState # "offline")

----------------------------------------------------------------------------
(* Sign-out (checked under SpecSession)                                    *)

\* C25: while no user is signed in (before the first sign-in, and from a
\* sign-out to the next sign-in) SyncState is 'idle'.
C25_Original_IdleWhileSignedOut ==
    currentUserId = NoUser => currentSyncState = "idle"


(***************************************************************************)
(* Observers of the sync state (checked under SpecObservers).              *)
(***************************************************************************)

\* callback is in syncStateListeners.
Registered(cb) ==
    \E i \in 1..Len(syncStateListeners) : syncStateListeners[i] = cb

\* The states a callback was called with, in the order of the calls.
CallStates(cb) ==
    [i \in 1..Len(observers[cb].calls) |-> observers[cb].calls[i].state]

\* The sync state after the first n changes.
StateAfter(n) == IF n = 0 THEN "idle" ELSE transitions[n]

\* What a callback registered after `since` changes should have been called
\* with by now: the state at its registration, then every later change.
StatesSince(since) ==
    <<StateAfter(since)>> \o SubSeq(transitions, since + 1, Len(transitions))

\* One more call of the callback, with this state, and the earlier calls as
\* they were.
CalledOnceMore(cb, state) ==
    /\ Len(observers'[cb].calls) = Len(observers[cb].calls) + 1
    /\ SubSeq(observers'[cb].calls, 1, Len(observers[cb].calls))
         = observers[cb].calls
    /\ observers'[cb].calls[Len(observers'[cb].calls)].state = state

\* C23: setSyncState(next) with next equal to the current state changes
\* nothing and calls no observer; otherwise the state becomes next and every
\* registered observer, and no other, is called exactly once more, with next.
\* So a registered observer has been called with every change of state since
\* its registration, once each and in the order of the changes.
C23_SetSyncStateNotifiesOnce ==
    /\ [](\A cb \in Callbacks : Registered(cb) =>
             CallStates(cb) = StatesSince(observers[cb].since))
    /\ [][\A next \in SyncStates, throwers \in SUBSET Callbacks :
            SetSyncState(next, throwers) =>
              IF next = currentSyncState
              THEN UNCHANGED <<currentSyncState, observers, transitions,
                               syncStateListeners>>
              ELSE /\ currentSyncState' = next
                   /\ \A cb \in Callbacks :
                        IF Registered(cb) THEN CalledOnceMore(cb, next)
                        ELSE observers'[cb] = observers[cb]]_vars

\* Two observers are registered and setSyncState has just told both of a
\* second change of state.
C23_Witness ==
    /\ returned.op = "setSyncState"
    /\ Len(syncStateListeners) = 2
    /\ Len(transitions) >= 2
    /\ \A cb \in Callbacks :
         Registered(cb) => /\ Len(observers[cb].calls) >= 3
                           /\ observers[cb].calls[Len(observers[cb].calls)].state
                                = currentSyncState

\* C24: onSyncStateChanged(cb) calls cb once, at once, with the current
\* state; as long as the returned unsubscribe function has not been called cb
\* has been called once per later change of state; once it has been called cb
\* is never called again, and calling it again changes nothing.
C24_SubscribeAndUnsubscribe ==
    /\ [](\A cb \in Callbacks :
            /\ observers[cb].calls # <<>> =>
                 observers[cb].calls[1].state = StateAfter(observers[cb].since)
            /\ observers[cb].handle /\ observers[cb].unsubscribed = 0 =>
                 Len(observers[cb].calls)
                   = 1 + Len(transitions) - observers[cb].since)
    /\ [][\A cb \in Callbacks :
            /\ observers[cb] = NotCalled /\ observers'[cb] # NotCalled =>
                 /\ Len(observers'[cb].calls) = 1
                 /\ observers'[cb].calls[1].state = currentSyncState
            /\ observers[cb].unsubscribed > 0 =>
                 observers'[cb].calls = observers[cb].calls
            /\ observers[cb].unsubscribed > 0
                 /\ observers'[cb].unsubscribed > observers[cb].unsubscribed =>
                   /\ UNCHANGED <<syncStateListeners, currentSyncState, transitions>>
                   /\ \A other \in Callbacks :
                        observers'[other].calls = observers[other].calls]_vars

\* An observer that saw a change of state was unsubscribed, twice, and the
\* state changed again without it being called.
C24_Witness ==
    \E cb \in Callbacks :
        /\ observers[cb].unsubscribed = 2
        /\ Len(observers[cb].calls) = 2
        /\ Len(transitions) = 3
        /\ observers[cb].since = 0
        /\ returned.op = "setSyncState"

\* C30: when setSyncState changes the state and registered observers throw,
\* every registered observer is still called with the new state and
\* setSyncState returns normally.
C30_ThrowingObserverIsolated ==
    [][\A next \in SyncStates, throwers \in SUBSET Callbacks :
         /\ SetSyncState(next, throwers)
         /\ next # currentSyncState
         /\ \E cb \in throwers : Registered(cb)
         => /\ \A cb \in Callbacks : Registered(cb) =>
                 /\ CalledOnceMore(cb, next)
                 /\ observers'[cb].calls[Len(observers'[cb].calls)].threw
                      = (cb \in throwers)
            /\ returned'.op = "setSyncState"
            /\ returned'.outcome = RetOk]_vars

\* setSyncState has returned normally from a change of state of which the
\* observer registered first threw and the one registered after it was told.
C30_Witness ==
    /\ returned.op = "setSyncState"
    /\ returned.outcome = RetOk
    /\ Len(syncStateListeners) = 2
    /\ LET first == observers[syncStateListeners[1]].calls
           second == observers[syncStateListeners[2]].calls
       IN  /\ Len(first) >= 2 /\ Len(second) >= 2
           /\ first[Len(first)] = [state |-> currentSyncState, threw |-> TRUE]
           /\ second[Len(second)] = [state |-> currentSyncState, threw |-> FALSE]

(***************************************************************************)
(* Merging a list with itself and with the empty list (checked under       *)
(* SpecMerge).                                                             *)
(***************************************************************************)

\* C33 as claimed: for every station list x, mergeStations(x, x),
\* mergeStations(x, []) and mergeStations([], x) are the same list, and
\* merging that list with itself returns it unchanged.  Stated of the merge
\* of x with the empty cloud list that the step computed.
C33_Original_SameDedupeEitherSide ==
    merged.done /\ cloud = <<>> =>
        /\ merged.val = mergeStations(local, local)
        /\ merged.val = mergeStations(<<>>, local)
        /\ mergeStations(merged.val, merged.val) = merged.val

(***************************************************************************)
(* The merged list of a sync (checked under SpecSerial).                   *)
(***************************************************************************)

\* No two stations of the list have the same id.
UniqueIds(list) ==
    \A i, j \in 1..Len(list) : list[i].id = list[j].id => i = j

\* No two stations of the list have the same normalized URL.
UniqueUrlKeys(list) ==
    \A i, j \in 1..Len(list) : UrlKey(list[i]) = UrlKey(list[j]) => i = j

\* C40 as claimed: when the local list and the downloaded cloud list each
\* have unique ids, the mergedStations of a successful syncStations holds no
\* two stations with equal normalized URL and no two stations with one id.
C40_Original_MergedStationsUnique ==
    (/\ SyncReturned
     /\ returned.outcome.flag
     /\ returned.cloud.done
     /\ UniqueIds(returned.input.list)
     /\ UniqueIds(returned.cloud.list))
    => /\ UniqueUrlKeys(returned.outcome.list)
       /\ UniqueIds(returned.outcome.list)

(***************************************************************************)
(* Live edits (checked under SpecLive).                                    *)
(***************************************************************************)

\* The pending changes as a call that starts now would load them.
PendingNow ==
    IF pendingChangesCache # NULL THEN Queue
    ELSE IF storage.present THEN storage.val ELSE <<>>

\* The remote collection of the user reflects the change.
AppliedRemotely(change, userId) ==
    IF change.type = "delete"
    THEN remote[userId][change.station.id] = NoStation
    ELSE remote[userId][change.station.id] = change.station

\* The change is in the queue, or it was a delete that addPendingChange
\* coalesced with the queued add of the station.
QueuedOrCoalesced(change) ==
    \/ \E i \in 1..Len(PendingNow) : PendingNow[i].id = change.id
    \/ /\ change.type = "delete"
       /\ \A i \in 1..Len(PendingNow) :
              PendingNow[i].station.id # change.station.id

\* C34 as claimed: when syncStationChange has returned for a change made
\* while signed in, the change has been applied to the remote store or is in
\* the pending-change queue, whatever the outcome of the push.
C34_Original_LiveEditNeverLost ==
    returned.op = "syncStationChange" /\ returned.outcome = RetOk =>
        \/ AppliedRemotely(returned.input.change, returned.input.userId)
        \/ QueuedOrCoalesced(returned.input.change)

(***************************************************************************)
(* Coalesced changes (checked under SpecCoalesce).                         *)
(***************************************************************************)

\* The queue holds a change for the station.
HasQueuedChange(sid) ==
    \E i \in 1..Len(PendingNow) : PendingNow[i].station.id = sid

\* C35 as claimed: a station whose queued add was coalesced away by a later
\* delete is never written to the remote store, also when the delete is
\* enqueued while a drain that has read the queue is in flight.  With no
\* other call that removes changes, a station of which the drain holds an add
\* it has not pushed and the queue holds no change is such a station; stated
\* of the moment the drain goes on to the next change of its list: it hands
\* pushStationChange no add of such a station.
C35_Original_CoalescedAddNeverPushed ==
    [][\A t \in TaskIds :
          (/\ tasks[t].op = "processPendingChanges"
           /\ tasks[t].attempts # <<>>
           /\ Len(tasks'[t].attempts) = Len(tasks[t].attempts) + 1)
          => \A c \in {tasks'[t].attempts[Len(tasks'[t].attempts)]} :
                c.type = "add" => HasQueuedChange(c.station.id)]_vars

(***************************************************************************)
(* Overlapping addPendingChange calls (checked under SpecOverlap).         *)
(***************************************************************************)

\* C32 as claimed: no interleaving of queue calls, also of calls that start
\* before the queue was first loaded, loses a queued change.  Where stations
\* are only added and edited and nothing is pushed, removed or cleared, a
\* change leaves the queue only by being replaced with a later change for
\* its station: when addPendingChange has returned, the queue holds a change
\* for the station, in the cache and in the stored item.
C32_Original_NoQueuedChangeLost ==
    returned.op = "addPendingChange" /\ returned.outcome = RetOk =>
        /\ HasQueuedChange(returned.input.change.station.id)
        /\ storage.present
        /\ \E i \in 1..Len(storage.val) :
              storage.val[i].station.id = returned.input.change.station.id

(***************************************************************************)
(* The order of a station's edits at the remote store (checked under       *)
(* SpecOrder).                                                             *)
(***************************************************************************)

\* The push of a change that a drain of call t took from the queue succeeds
\* in this step.
DrainedChangeWritten(t) ==
    /\ At(t, "pushStationChange", "attempt")
    /\ tasks[t].attempts # <<>>
    /\ tasks'[t].ret.kind = "ok"

\* C36 as claimed: for each station the edits reach the remote store in the
\* order they were made: once pushChange has delivered a live edit of a
\* station directly, no drain writes an older change of that station to the
\* remote store.
C36_Original_EditsReachRemoteInOrder ==
    [][\A t \in TaskIds :
          DrainedChangeWritten(t) =>
              \A c \in {Top(tasks[t]).change} :
                  c.timestamp >= delivered[c.station.id]]_vars

(***************************************************************************)
(* Two accounts on one device (checked under SpecAccounts).                *)
(***************************************************************************)

\* C37 as claimed: a pending change enqueued while user A was the active
\* user is only ever pushed to A's remote collection, also after A signed
\* out and B signed in.  Here every change is made while FirstUser is signed
\* in: whenever a drain is pushing a change of the queue, it pushes it to
\* FirstUser's collection.
C37_Original_PendingChangeStaysWithUser ==
    \A t \in TaskIds :
        (/\ Running(t)
         /\ tasks[t].attempts # <<>>
         /\ Top(tasks[t]).fn = "pushStationChange")
        => Top(tasks[t]).userId = FirstUser

(***************************************************************************)
(* The state 'synced' and the queue (checked under SpecNetwork).           *)
(***************************************************************************)

\* C38 as claimed: whenever the sync state is 'synced' and no sync operation
\* is in flight, the pending-change queue is empty.
C38_Original_SyncedMeansQueueEmpty ==
    (/\ currentSyncState = "synced"
     /\ \A t \in TaskIds : ~Running(t))
    => PendingNow = <<>>

(***************************************************************************)
(* Full syncs started by the app (checked under SpecResync).               *)
(***************************************************************************)

\* C31 as claimed: at most one syncStations call is in flight at any time;
\* the restoration callback never starts one while another is running.
C31_Original_OneSyncAtATime ==
    \A t, u \in TaskIds : InSyncStations(t) /\ InSyncStations(u) => t = u

\* The last thing the returned call noted.
LastLogged == returned.log[Len(returned.log)]

\* C39 as claimed: when the restoration handler finishes having set
\* 'synced', the resync that its callback started succeeded and the device
\* is still connected; a resync that ended in 'offline' or 'error', or a
\* disconnect received meanwhile, is not overwritten by 'synced'.
C39_Original_SyncedOnlyAfterGoodResync ==
    (/\ returned.op = "handleNetworkChange"
     /\ returned.log # <<>>
     /\ LastLogged = "synced")
    => /\ \E i \in 1..Len(returned.log) : returned.log[i] = "resynced"
       /\ isNetworkConnected

====
